--------------------------- MODULE GridDiskProofs ---------------------------
(***************************************************************************)
(* Theorems about two components. First the grid of games (GameGrid), for  *)
(* every size of the grid, every list that fits, every capacity of the     *)
(* event queue, and any number of keys, devices and discs. Then what moves *)
(* on the disk: BdemuBackup, PkgInstall and their composition DiskMoves,   *)
(* for every set of games and packages and every number of slots, where    *)
(* the theorems about the composition follow from those about the parts,   *)
(* since a step of it is a step of each part or leaves it alone; and       *)
(* CopyAsync, with which packages get onto the disk, for every chunk size  *)
(* of 555 bytes or more and every size of the file.                        *)
(***************************************************************************)
EXTENDS GameGrid, GameListProofs, DiskMoves, CopyAsync, SequenceTheorems, TLAPS

(***************************************************************************)
(* THE GRID OF GAMES                                                       *)
(***************************************************************************)

Pages == {k * G : k \in Int}

LEMMA Grid == G \in Nat \ {0} /\ W \in Nat \ {0} /\ H \in Nat \ {0} /\ 0 \in Cells /\ 0 \in Pages
<1>1. W \in Nat /\ H \in Nat /\ W > 0 /\ H > 0
  BY GameGridAssumption
<1>2. G \in Nat /\ G > 0
  BY <1>1 DEF G
<1>3. 0 = 0 * G
  BY <1>2
<1> QED
  BY <1>1, <1>2, <1>3 DEF Cells, Pages

LEMMA CellAt ==
  ASSUME NEW x \in 0 .. W - 1, NEW y \in 0 .. H - 1
  PROVE  x + y * W \in Cells
<1>1. W \in Nat /\ H \in Nat /\ W > 0 /\ H > 0
  BY Grid
<1>2. y * W \in Nat /\ y * W <= (H - 1) * W
  BY <1>1
<1>3. (H - 1) * W = W * H - W /\ W * H \in Nat
  BY <1>1
<1> QED
  BY <1>1, <1>2, <1>3 DEF Cells, G

LEMMA CellSplit ==
  ASSUME NEW c \in Cells
  PROVE  c % W \in 0 .. W - 1 /\ c \div W \in 0 .. H - 1 /\ (c % W) + (c \div W) * W = c
<1>1. W \in Nat /\ H \in Nat /\ W > 0 /\ H > 0 /\ c \in Nat /\ c < W * H
  BY Grid DEF Cells, G
<1> DEFINE q == c \div W
           r == c % W
<1>2. q \in Int /\ r \in 0 .. W - 1 /\ c = W * q + r
  BY <1>1
<1> HIDE DEF q, r
<1>3. q >= 0
  <2>1. CASE q <= -1
    <3>1. W * q <= -W
      BY <1>1, <1>2, <2>1
    <3> QED
      BY <1>1, <1>2, <3>1
  <2> QED
    BY <1>2, <2>1
<1>4. q < H
  <2>1. CASE q >= H
    <3>1. W * q >= W * H
      BY <1>1, <1>2, <2>1
    <3> QED
      BY <1>1, <1>2, <3>1
  <2> QED
    BY <1>1, <1>2, <2>1
<1>5. r + q * W = c
  BY <1>1, <1>2
<1> QED
  BY <1>1, <1>2, <1>3, <1>4, <1>5 DEF q, r

LEMMA PageOf ==
  ASSUME NEW n \in Nat
  PROVE  /\ (n \div G) * G \in Pages /\ (n \div G) * G \in 0 .. n
         /\ n % G \in Cells /\ (n \div G) * G + (n % G) = n
<1>1. G \in Nat /\ G > 0
  BY Grid
<1> DEFINE q == n \div G
           r == n % G
<1>2. q \in Int /\ r \in 0 .. G - 1 /\ n = G * q + r
  BY <1>1
<1> HIDE DEF q, r
<1>3. q >= 0
  <2>1. CASE q <= -1
    <3>1. G * q <= -G
      BY <1>1, <1>2, <2>1
    <3> QED
      BY <1>1, <1>2, <3>1
  <2> QED
    BY <1>2, <2>1
<1>4. q * G \in Pages /\ q * G \in Nat /\ q * G + r = n
  BY <1>1, <1>2, <1>3 DEF Pages
<1>5. q * G \in 0 .. n /\ r \in Cells
  BY <1>1, <1>2, <1>4 DEF Cells
<1>6. q * G \in Pages /\ q * G \in 0 .. n /\ r \in Cells /\ q * G + r = n
  BY <1>4, <1>5
<1>7. q = n \div G /\ r = n % G
  BY DEF q, r
<1> HIDE DEF Cells
<1> QED
  BY <1>6, <1>7, Zenon

LEMMA NextPage ==
  ASSUME NEW n \in Pages
  PROVE  n \in Int /\ n + G \in Pages /\ n - G \in Pages
<1>1. G \in Nat /\ G > 0
  BY Grid
<1>2. PICK k \in Int : n = k * G
  BY DEF Pages
<1>3. n + G = (k + 1) * G /\ n - G = (k - 1) * G /\ n \in Int
  BY <1>1, <1>2
<1>4. k + 1 \in Int /\ k - 1 \in Int
  BY <1>2
<1> QED
  BY <1>3, <1>4 DEF Pages

LEMMA LastPage ==
  ASSUME NEW m \in Nat
  PROVE  /\ RoundUp(m) - G \in Pages
         /\ m > 0 => RoundUp(m) - G \in 0 .. m - 1
         /\ \A n \in Pages : n < RoundUp(m) - G => n + G < m
<1>1. G \in Nat /\ G > 0
  BY Grid
<1> DEFINE p == m + G - 1
           q == p \div G
           r == p % G
<1>2. q \in Int /\ r \in 0 .. G - 1 /\ p = G * q + r /\ p = m + G - 1
  BY <1>1
<1>3. RoundUp(m) = q * G
  BY DEF RoundUp
<1> HIDE DEF p, q, r
<1>4. q * G \in Int /\ q * G = G * q /\ q * G = (m + G - 1) - r
  BY <1>1, <1>2
<1>5. RoundUp(m) - G = (q - 1) * G /\ q - 1 \in Int
  BY <1>1, <1>2, <1>3
<1>6. RoundUp(m) - G = m - 1 - r /\ RoundUp(m) - G \in Int
  BY <1>1, <1>2, <1>3, <1>4
<1>7. RoundUp(m) - G \in Pages
  BY <1>5 DEF Pages
<1>8. m > 0 => RoundUp(m) - G \in 0 .. m - 1
  <2>1. CASE q <= 0 /\ m > 0
    <3>1. G * q <= 0
      BY <1>1, <1>2, <2>1
    <3> QED
      BY <1>1, <1>2, <2>1, <3>1
  <2>2. CASE q >= 1
    <3>1. (q - 1) * G >= 0
      BY <1>1, <1>2, <2>2
    <3> QED
      BY <1>2, <1>5, <1>6, <3>1
  <2> QED
    BY <1>2, <2>1, <2>2
<1>9. ASSUME NEW n \in Pages, n < RoundUp(m) - G
      PROVE  n + G < m
  <2>1. PICK k \in Int : n = k * G
    BY DEF Pages
  <2>2. n \in Int /\ k < q - 1
    <3>1. CASE k >= q - 1
      <4>1. k * G >= (q - 1) * G
        BY <1>1, <1>2, <2>1, <3>1
      <4> QED
        BY <1>1, <1>5, <1>6, <1>9, <2>1, <4>1
    <3> QED
      BY <1>1, <1>2, <2>1, <3>1
  <2>3. (k + 1) * G <= (q - 1) * G
    BY <1>1, <1>2, <2>1, <2>2
  <2>4. (k + 1) * G = n + G
    BY <1>1, <2>1
  <2> QED
    BY <1>1, <1>2, <1>5, <1>6, <2>2, <2>3, <2>4
<1> QED
  BY <1>7, <1>8, <1>9

-----------------------------------------------------------------------------
(* The list.                                                               *)

File == [id : Nat \ {0}, kind : {"folder"}]

\* The entries of a device come from its files.
LEMMA ShownFiles ==
  ASSUME NEW files, IsFiniteSet(files), NEW dev, NEW kinds,
         \A f \in files : f = [id |-> f.id, kind |-> f.kind],
         \A f \in files : f.kind \in kinds => [id |-> f.id, dev |-> dev, kind |-> f.kind] \in Entry
  PROVE  LET new == EntriesOf(files, dev, kinds)
         IN  /\ new \in Seq(Entry) /\ Distinct(new)
             /\ ToSet(new) = {[id |-> f.id, dev |-> dev, kind |-> f.kind] :
                                f \in {g \in files : g.kind \in kinds}}
<1>1. EntriesOf(files, dev, kinds) \in Seq(Entry) /\ Distinct(EntriesOf(files, dev, kinds))
  BY EntriesOfFiles
<1>2. ToSet(EntriesOf(files, dev, kinds)) =
        {[id |-> f.id, dev |-> dev, kind |-> f.kind] : f \in {g \in files : g.kind \in kinds}}
  BY EntriesOfFiles
<1> QED
  BY <1>1, <1>2

\* A list made from nothing: entries, no more than there is room for, and
\* the disc on top.
LEMMA ListOfIs ==
  ASSUME NEW devices, NEW kept \in [Devices -> SUBSET File],
         \A d \in Devices : kept[d] \subseteq Shelf[d]
  PROVE  LET l == ListOf(devices, kept)
         IN  l \in Seq(Entry) /\ Len(l) <= Capacity /\ DiscOnTop(l)
<1> DEFINE Held(d) == IF d \in devices THEN EntriesOf(kept[d], d, {"folder"}) ELSE <<>>
           N(d) == Cardinality(Shelf[d])
<1>1. ASSUME NEW d \in Devices
      PROVE  /\ Held(d) \in Seq(Entry) /\ Distinct(Held(d)) /\ Len(Held(d)) \in Nat
             /\ \A e \in ToSet(Held(d)) : e.dev = d
             /\ Len(Held(d)) <= N(d) /\ N(d) \in Nat
  <2>1. IsFiniteSet(Shelf[d]) /\ kept[d] \subseteq Shelf[d] /\ kept[d] \subseteq File
    BY GameGridAssumption
  <2>2. IsFiniteSet(kept[d]) /\ Cardinality(kept[d]) <= N(d) /\ N(d) \in Nat /\ Cardinality(kept[d]) \in Nat
    BY <2>1, FS_Subset, FS_CardinalityType
  <2> HIDE DEF N
  <2>3. CASE d \notin devices
    BY <2>2, <2>3 DEF Distinct, ToSet
  <2>4. CASE d \in devices
    <3> DEFINE new == EntriesOf(kept[d], d, {"folder"})
    <3>1. \A f \in kept[d] : f = [id |-> f.id, kind |-> f.kind]
      BY <2>1 DEF File
    <3>2. \A f \in kept[d] : f.kind \in {"folder"} => [id |-> f.id, dev |-> d, kind |-> f.kind] \in Entry
      BY <2>1 DEF File, Entry
    <3>3. /\ new \in Seq(Entry) /\ Distinct(new)
          /\ ToSet(new) = {[id |-> f.id, dev |-> d, kind |-> f.kind] :
                             f \in {g \in kept[d] : g.kind \in {"folder"}}}
      BY <2>2, <3>1, <3>2, ShownFiles
    <3>4. Held(d) = new
      BY <2>4
    <3>5. Len(new) \in Nat /\ DOMAIN new = 1 .. Len(new)
      BY <3>3
    <3>6. \A i \in 1 .. Len(new) : new[i] \in ToSet(new)
      BY <3>5 DEF ToSet
    <3>7. Len(new) <= Cardinality(kept[d])
      <4> DEFINE h == [f \in kept[d] |-> [id |-> f.id, dev |-> d, kind |-> f.kind]]
      <4>1. ToSet(new) \subseteq {h[f] : f \in kept[d]}
        BY <3>3
      <4> HIDE DEF h
      <4>2. Cardinality({h[f] : f \in kept[d]}) <= Cardinality(kept[d]) /\ IsFiniteSet({h[f] : f \in kept[d]})
        <5>1. h \in Surjection(kept[d], {h[f] : f \in kept[d]})
          BY DEF h, Surjection
        <5> QED
          BY <2>2, <5>1, FS_Surjection
      <4> QED
        <5>1. Cardinality(ToSet(new)) = Len(new)
          BY <3>3, LenIsCardinality
        <5>2. Cardinality(ToSet(new)) <= Cardinality({h[f] : f \in kept[d]})
          BY <4>1, <4>2, FS_Subset
        <5>3. Cardinality({h[f] : f \in kept[d]}) \in Nat /\ Len(new) \in Nat
          BY <3>3, <4>2, FS_CardinalityType
        <5> HIDE DEF new, h
        <5> QED
          BY <2>2, <4>2, <5>1, <5>2, <5>3
    <3>8. \A e \in ToSet(new) : e.dev = d
      BY <3>3
    <3> HIDE DEF new
    <3> QED
      BY <2>2, <3>3, <3>4, <3>5, <3>7, <3>8
  <2> HIDE DEF Held
  <2> QED
    BY <2>3, <2>4 DEF N
<1> DEFINE a == Held("hdd")
           b == Held("usb")
           c == Held("bdvd")
           all == (a \o b) \o c
<1>2. /\ a \in Seq(Entry) /\ Distinct(a) /\ Len(a) \in Nat /\ Len(a) <= N("hdd") /\ N("hdd") \in Nat
      /\ \A e \in ToSet(a) : e.dev = "hdd"
  BY <1>1 DEF Devices
<1>3. /\ b \in Seq(Entry) /\ Distinct(b) /\ Len(b) \in Nat /\ Len(b) <= N("usb") /\ N("usb") \in Nat
      /\ \A e \in ToSet(b) : e.dev = "usb"
  BY <1>1 DEF Devices
<1>4. /\ c \in Seq(Entry) /\ Distinct(c) /\ Len(c) \in Nat /\ Len(c) <= N("bdvd") /\ N("bdvd") \in Nat
      /\ \A e \in ToSet(c) : e.dev = "bdvd"
  BY <1>1 DEF Devices
<1>5. ListOf(devices, kept) = sort_entries(all)
  BY DEF ListOf
<1>6. Len(a) + Len(b) + Len(c) <= Capacity
  <2>1. N("hdd") + N("usb") + N("bdvd") <= Capacity /\ Capacity \in Nat
    BY GameGridAssumption, CapacityAssumption
  <2> HIDE DEF a, b, c, N
  <2> QED
    BY <1>2, <1>3, <1>4, <2>1
<1>7. Len(c) <= 1
  <2>1. IsFiniteSet(Shelf["bdvd"]) /\ \A f, g \in Shelf["bdvd"] : f = g
    BY GameGridAssumption DEF Devices
  <2>2. CASE Shelf["bdvd"] = {}
    <3>1. N("bdvd") = 0
      BY <2>2, FS_EmptySet
    <3> HIDE DEF c, N
    <3> QED
      BY <1>4, <3>1
  <2>3. CASE Shelf["bdvd"] # {}
    <3>1. PICK f : Shelf["bdvd"] = {f}
      BY <2>1, <2>3
    <3>2. N("bdvd") = 1
      BY <3>1, FS_Singleton
    <3> HIDE DEF c, N
    <3> QED
      BY <1>4, <3>2
  <2> QED
    BY <2>2, <2>3
<1> HIDE DEF a, b, c, Held, N
<1>8. /\ a \o b \in Seq(Entry) /\ Distinct(a \o b) /\ Len(a \o b) = Len(a) + Len(b)
      /\ ToSet(a \o b) = ToSet(a) \cup ToSet(b)
  <2>1. ToSet(a) \cap ToSet(b) = {}
    BY <1>2, <1>3
  <2> QED
    BY <1>2, <1>3, <2>1, Joined
<1>9. /\ all \in Seq(Entry) /\ Distinct(all) /\ Len(all) = Len(a) + Len(b) + Len(c)
      /\ \A i \in 1 .. Len(all) : IsDisc(all[i]) => i > Len(a) + Len(b)
  <2>1. ToSet(a \o b) \cap ToSet(c) = {}
    BY <1>2, <1>3, <1>4, <1>8
  <2>2. all \in Seq(Entry) /\ Distinct(all) /\ Len(all) = Len(a) + Len(b) + Len(c)
    <3> DEFINE ab == a \o b
    <3>1. ab \in Seq(Entry) /\ Distinct(ab) /\ ToSet(ab) \cap ToSet(c) = {} /\ Len(ab) = Len(a) + Len(b)
      BY <1>8, <2>1
    <3> HIDE DEF ab
    <3>2. ab \o c \in Seq(Entry) /\ Distinct(ab \o c) /\ Len(ab \o c) = Len(ab) + Len(c)
      BY <1>4, <3>1, Joined
    <3> QED
      BY <3>1, <3>2 DEF ab, all
  <2>3. \A i \in 1 .. Len(a) + Len(b) : all[i] = (a \o b)[i] /\ (a \o b)[i] \in ToSet(a \o b)
    BY SMTT(30), <1>4, <1>8 DEF ToSet
  <2>4. \A e \in ToSet(a \o b) : ~IsDisc(e)
    BY <1>2, <1>3, <1>8 DEF IsDisc
  <2> QED
    BY <1>2, <1>3, <1>4, <2>2, <2>3, <2>4
<1> HIDE DEF all
<1>10. OneDisc(all)
  BY <1>2, <1>3, <1>4, <1>7, <1>9 DEF OneDisc
<1>11. sort_entries(all) \in Shuffles(Entry, all)
  BY <1>9, SortShuffles DEF sort_entries
<1>12. DiscOnTop(sort_entries(all))
  BY <1>9, <1>10, DiscComesFirst
<1>13. sort_entries(all) \in Seq(Entry) /\ Len(sort_entries(all)) = Len(all)
  BY <1>11 DEF Shuffles
<1> QED
  BY <1>5, <1>6, <1>9, <1>12, <1>13

-----------------------------------------------------------------------------
(* The inductive invariant.                                                *)

Placing == {"wait", "lower", "dir", "send"}      \* within get_games
Relisting == gui \in {"listing", "favs", "relisted"} \/ (gui \in Placing /\ then = "relisted")
Steady == fdevices # {} /\ forcedevices = {}
Emptied == gui = "turn" /\ fdevices = {}
Calls == {Call(get_games_2), Call(get_pict)}

TypesSound ==
  /\ GgTypeOK
  /\ "hdd" \in plugged
  /\ shelf \in [Devices -> SUBSET File] /\ \A d \in Devices : shelf[d] \subseteq Shelf[d]
  /\ Len(directories) <= Capacity /\ listing = (gui = "listing")
  /\ currentdir \in Int /\ currentgamedir \in Int /\ int_currentdir \in Int
  /\ mode_favourites \in Nat /\ havefavourites \in BOOLEAN /\ break_get_games \in {0, 1}
  /\ job \in [at : {"idle", "cell", "icon", "load"}, fav : BOOLEAN, pass : 0 .. 3, cell : Cells,
              game : Nat \cup {Outside}]
  /\ then \in {"turn", "relisted", "frame"} /\ gui # "exit"
  /\ raced \in BOOLEAN /\ stale \in BOOLEAN /\ inserted \in BOOLEAN

\* The worker is given two functions, the loader's place is within its run,
\* and the loader is told to stop only by a get_games that is still waiting.
EventsSound ==
  /\ \A i \in 1 .. Len(evQ) : evQ[i] \in Calls
  /\ wpc \in {"receive", "dispatch", "run", "clear"}
  /\ wpc # "receive" => event \in Calls
  /\ (event_thread_working = 1) = (wpc \in {"run", "clear"})
  /\ job.at # "idle" => wpc = "run" /\ event.func = get_games_2
  /\ job.at \in {"icon", "load"} => job.pass < 3
  /\ gui \notin {"wait", "lower"} => break_get_games = 0

\* The page begins at a multiple of the cells' number, within the list, and
\* the devices to look at again are the main loop's business alone.
PagesSound ==
  /\ DiscOnTop(directories)
  /\ currentdir \in Pages
  /\ directories # <<>> => InList(currentdir)
  /\ gui = "listing" => currentdir = 0
  /\ gui # "turn" => Steady

\* A favourite that is in the list is where its index says, and so is the
\* game that waits for a cell.
Waits(mode) == mode >= Insert /\ mode < Swap      \* a game waits for a cell
FavouritesSound ==
  /\ \A c, d \in Cells : favourites[c].id = favourites[d].id /\ favourites[c].id # 0 => c = d
  /\ ~Emptied /\ gui # "listing" => \A c \in Cells : favourites[c].index >= 0 =>
       favourites[c].id # 0 /\ InList(favourites[c].index) /\ IdAt(favourites[c].index) = favourites[c].id
  /\ ~Emptied /\ ~Relisting /\ Waits(mode_favourites) => InList(mode_favourites - Insert)

\* An open screen is about an entry of the list, the chosen one.
Open == (menu_screen # 0 /\ ~Relisting) \/ (gui \in {"flip", "asked"} /\ drawn.screen # 0)
MenuSound ==
  /\ Open => /\ InList(currentgamedir)
             /\ mode_favourites = 0 => currentgamedir = currentdir + Selected
             /\ ~inserted => chosen = TheGame
  /\ gui \in {"flip", "asked"} => menu_screen \in {0, drawn.screen}
  /\ gui = "waitpict" => menu_screen = 0
  /\ gui = "asked" => drawn.screen = 1
  /\ ActsOnTheChosen

WantedSound ==
  wanted # NULL => /\ gui = "frame" \/ (gui \in Placing /\ then = "frame")
                   /\ IdAt(get_currentdir(Selected)) = wanted.id

\* While the favourites are shown, no picture is loaded into a cell whose
\* favourite is not in the list.
JobSound ==
  mode_favourites # 0 =>
    /\ gui # "wait" /\ job.at # "idle" => job.fav
    /\ gui \notin {"favs", "wait"} /\ job.at \in {"icon", "load"} => favourites[job.cell].index >= 0
    /\ gui \notin {"favs"} \cup Placing => \A c \in Cells : icons[c] # 0 => favourites[c].index >= 0

\* A picture is the cell's or is missing; those missing are ahead of the
\* loader, which has come to the cell it stands at for a reason and looks
\* where the grid looks; and a loader that has not begun is coming.
Norm(n) == IF InList(n) THEN n ELSE 0
EntryOf(c) == directories[get_currentdir(c) + 1]
HasPicture(c) == InList(get_currentdir(c)) /\ ~(mode_favourites # 0 /\ favourites[c].id = 0)
Shows(c) == icons[c] = PictureOf(c)
Passed(c) == PassOf(EntryOf(c)) < job.pass \/ (PassOf(EntryOf(c)) = job.pass /\ c < job.cell)
JobShows ==
  /\ job.fav = (mode_favourites # 0)
  /\ mode_favourites = 0 => int_currentdir = Norm(currentdir)
  /\ \A c \in Cells : (HasPicture(c) => Passed(c)) => Shows(c)
  /\ job.at \in {"icon", "load"} => HasPicture(job.cell) /\ PassOf(EntryOf(job.cell)) = job.pass
  /\ job.at = "load" => job.game = PictureOf(job.cell)
Coming ==
  \/ \E i \in 1 .. Len(evQ) : evQ[i] = Call(get_games_2)
  \/ wpc \in {"dispatch", "run"} /\ event.func = get_games_2
Showing == gui \notin {"listing", "favs"} \cup Placing /\ Steady
ViewSound ==
  /\ Showing /\ ~raced /\ ~stale =>
       /\ \A c \in Cells : icons[c] = 0 \/ Shows(c)
       /\ mode_favourites = 0 => Norm(int_currentdir) = Norm(currentdir)
       /\ job.at # "idle" => JobShows
       /\ Coming \/ \A c \in Cells : Shows(c)
  /\ gui = "send" => Norm(int_currentdir) = Norm(currentdir)

GridInv ==
  /\ TypesSound /\ EventsSound /\ PagesSound /\ FavouritesSound
  /\ MenuSound /\ WantedSound /\ JobSound /\ ViewSound

-----------------------------------------------------------------------------
(* What an action leaves alone.                                            *)

\* The selected cell is a cell.
LEMMA SelectedCell ==
  ASSUME TypesSound
  PROVE  Selected \in Cells
<1>1. select_px \in 0 .. W - 1 /\ select_py \in 0 .. H - 1
  BY DEF TypesSound, GgTypeOK
<1> QED
  BY <1>1, CellAt DEF Selected

LEMMA EvTypeFrame ==
  ASSUME EvTypeOK, UNCHANGED evVars
  PROVE  EvTypeOK'
BY DEF EvTypeOK, evVars

LEMMA EventsFrame ==
  ASSUME EventsSound, UNCHANGED <<evVars, job>>, gui' \notin {"wait", "lower"} => break_get_games' = 0
  PROVE  EventsSound'
BY DEF EventsSound, evVars

LEMMA PagesFrame ==
  ASSUME PagesSound, UNCHANGED <<directories, currentdir, fdevices, forcedevices>>,
         gui \notin {"turn", "listing"}, gui' # "listing"
  PROVE  PagesSound'
BY DEF PagesSound, InList, Steady

LEMMA FavouritesFrame ==
  ASSUME FavouritesSound, UNCHANGED <<directories, favourites>>,
         ~Emptied, gui \notin {"listing"},
         mode_favourites' = mode_favourites \/ ~Waits(mode_favourites'),
         Relisting => Relisting'
  PROVE  FavouritesSound'
BY DEF FavouritesSound, InList, IdAt

LEMMA MenuFrame ==
  ASSUME MenuSound, UNCHANGED <<directories, mode_favourites, currentdir, select_px, select_py>>,
         UNCHANGED <<currentgamedir, chosen, acted, inserted>>,
         Open' => Open,
         gui' \in {"flip", "asked"} => menu_screen' \in {0, drawn'.screen},
         gui' = "waitpict" => menu_screen' = 0,
         gui' = "asked" => drawn'.screen = 1
  PROVE  MenuSound'
BY DEF MenuSound, InList, TheGame, Selected, ActsOnTheChosen

LEMMA JobFrame ==
  ASSUME JobSound, (mode_favourites' = 0) = (mode_favourites = 0), UNCHANGED <<job, favourites, icons>>,
         gui' = "wait" \/ (gui \notin {"favs", "wait"} /\ (gui \in Placing => gui' \in Placing))
  PROVE  JobSound'
BY DEF JobSound, Placing

LEMMA JobUnsaid ==
  ASSUME mode_favourites' = 0 \/ gui' = "wait"
  PROVE  JobSound'
BY DEF JobSound, Placing

\* Where the page begins does not matter among the favourites, nor when
\* the list is empty.
LEMMA ViewFrame ==
  ASSUME ViewSound, (mode_favourites' = 0) = (mode_favourites = 0),
         UNCHANGED <<evVars, directories, favourites, icons, int_currentdir, job, raced, stale>>,
         mode_favourites = 0 => currentdir' = currentdir \/ directories = <<>>,
         Showing' => Showing, gui' # "send"
  PROVE  ViewSound'
<1>1. directories = <<>> => \A n : ~InList(n)
  BY DEF InList
<1>2. InList(0)' = InList(0) /\ \A n : InList(n)' = InList(n) /\ IdAt(n)' = IdAt(n) /\ Norm(n)' = Norm(n)
  BY DEF InList, IdAt, Norm
<1>3. directories = <<>> => Norm(currentdir)' = Norm(currentdir)
  BY <1>1, <1>2 DEF Norm, InList
<1>4. mode_favourites = 0 => Norm(currentdir)' = Norm(currentdir)
  BY <1>3 DEF Norm, InList
<1>5. \A c : HasPicture(c)' = HasPicture(c)
  BY <1>1 DEF HasPicture, get_currentdir, InList
<1>6. \A c : PictureOf(c)' = PictureOf(c) /\ (HasPicture(c) => EntryOf(c)' = EntryOf(c))
  BY <1>1 DEF HasPicture, get_currentdir, InList, PictureOf, IdAt, EntryOf
<1>7. \A c : Shows(c)' = Shows(c) /\ (HasPicture(c) => Passed(c)' = Passed(c))
  BY <1>6 DEF Shows, Passed
<1>8. Norm(int_currentdir)' = Norm(int_currentdir) /\ Coming' = Coming
  BY DEF Norm, InList, Coming, evVars
<1>9. job.at # "idle" /\ JobShows => JobShows'
  BY <1>4, <1>5, <1>6, <1>7 DEF JobShows
<1> QED
  BY <1>4, <1>7, <1>8, <1>9 DEF ViewSound

\* Within get_games, and before it, nothing is said of the view.
LEMMA ViewUnsaid ==
  ASSUME gui' \in {"listing", "favs"} \cup (Placing \ {"send"})
  PROVE  ViewSound'
BY DEF ViewSound, Showing, Placing

LEMMA WantedNone ==
  ASSUME wanted' = NULL
  PROVE  WantedSound'
BY DEF WantedSound

Modes == {0, 1} \cup {Insert + n : n \in 0 .. Capacity - 1} \cup {Swap + c : c \in Cells}
Favourites == [Cells -> [id : Nat, index : -1 .. Capacity]]

LEMMA ModesAre ==
  /\ Modes \subseteq Nat /\ Insert = 65536 /\ Swap = 131072
  /\ \A m \in Modes : m = 0 \/ m = 1 \/ (m >= Insert /\ m < Swap /\ m - Insert \in 0 .. Capacity - 1)
                      \/ (m >= Swap /\ m - Swap \in Cells)
<1>1. Capacity \in Nat /\ Capacity <= 65536 /\ Insert = 65536 /\ Swap = 131072
  BY GameGridAssumption, CapacityAssumption DEF Insert, Swap
<1>2. G \in Nat
  BY Grid
<1> QED
  BY <1>1, <1>2 DEF Modes, Cells

\* The types of what the keys and the screens change.
LEMMA TypesFrame ==
  ASSUME TypesSound, EvTypeOK',
         UNCHANGED <<plugged, shelf, fdevices, forcedevices, directories, drawn, icons, job, raced, stale>>,
         currentdir' \in Int, currentgamedir' \in Int, int_currentdir' \in Int,
         select_px' \in 0 .. W - 1, select_py' \in 0 .. H - 1,
         menu_screen' \in {0, 1, 2}, mode_favourites' \in Modes, favourites' \in Favourites,
         havefavourites' \in BOOLEAN, inserted' \in BOOLEAN, break_get_games' \in {0, 1},
         gui' \in {"turn", "relisted", "wait", "lower", "dir", "send", "frame", "flip", "waitpict", "asked"},
         gui # "listing", then' \in {"turn", "relisted", "frame"},
         UNCHANGED listing
  PROVE  TypesSound'
<1>1. mode_favourites' \in Nat
  BY ModesAre
<1>2. GgTypeOK'
  BY DEF TypesSound, GgTypeOK, Modes, Favourites
<1>3. listing' = (gui' = "listing")
  BY DEF TypesSound
<1> QED
  BY <1>1, <1>2, <1>3 DEF TypesSound

LEMMA GridTypes ==
  ASSUME TypesSound
  PROVE  /\ EvTypeOK /\ currentdir \in Int /\ currentgamedir \in Int /\ int_currentdir \in Int
         /\ select_px \in 0 .. W - 1 /\ select_py \in 0 .. H - 1 /\ menu_screen \in {0, 1, 2}
         /\ mode_favourites \in Modes /\ favourites \in Favourites /\ havefavourites \in BOOLEAN
         /\ inserted \in BOOLEAN /\ break_get_games \in {0, 1} /\ then \in {"turn", "relisted", "frame"}
         /\ directories \in Seq(Entry) /\ Len(directories) \in Nat /\ Len(directories) <= Capacity
         /\ Capacity \in Nat
         /\ get_currentdir(Selected) \in Int
<1>1. /\ EvTypeOK /\ currentdir \in Int /\ currentgamedir \in Int /\ int_currentdir \in Int
      /\ select_px \in 0 .. W - 1 /\ select_py \in 0 .. H - 1 /\ menu_screen \in {0, 1, 2}
      /\ mode_favourites \in Modes /\ favourites \in Favourites /\ havefavourites \in BOOLEAN
      /\ inserted \in BOOLEAN /\ break_get_games \in {0, 1} /\ then \in {"turn", "relisted", "frame"}
      /\ directories \in Seq(Entry) /\ Len(directories) <= Capacity
  BY DEF TypesSound, GgTypeOK, Modes, Favourites
<1>2. Selected \in Cells /\ Selected \in Int
  BY SelectedCell, Grid DEF Cells
<1>3. Capacity \in Nat
  BY CapacityAssumption
<1>4. favourites[Selected].index \in Int
  <2>1. favourites[Selected] \in [id : Nat, index : -1 .. Capacity]
    BY <1>1, <1>2 DEF Favourites
  <2> QED
    BY <2>1, <1>3
<1> QED
  BY <1>1, <1>2, <1>3, <1>4 DEF get_currentdir

-----------------------------------------------------------------------------
(* Keys that leave the grid as it is.                                      *)

LEMMA Drawn ==
  ASSUME GridInv, gui \in {"flip", "asked"}
  PROVE  Steady /\ ~Emptied /\ ~Relisting /\ break_get_games = 0 /\ Selected \in Cells /\ menu_screen \in {0, drawn.screen}
<1>1. gui \notin {"wait", "lower"} => break_get_games = 0
  BY DEF GridInv, EventsSound
<1>2. gui # "turn" => Steady
  BY DEF GridInv, PagesSound
<1>3. menu_screen \in {0, drawn.screen}
  BY DEF GridInv, MenuSound
<1>4. Selected \in Cells
  BY SelectedCell DEF GridInv
<1> QED
  BY <1>1, <1>2, <1>3, <1>4 DEF Emptied, Relisting, Placing

LEMMA NoKeyKept ==
  ASSUME GridInv, gui = "flip", drawn.screen = 0, NoKey, GuiRest
  PROVE  GridInv'
<1>1. TypesSound'
  <2>1. currentgamedir' \in Int
    BY GridTypes DEF GridInv, NoKey, SetLast
  <2> QED
    BY <2>1, GridTypes, TypesFrame, EvTypeFrame
    DEF GridInv, NoKey, GuiRest, GoTo, NoDevice, OnTheGrid, Stay, screen, favs, list
<1>2. EventsSound'
  BY EventsFrame DEF GridInv, NoKey, GuiRest, GoTo, EventsSound
<1>3. PagesSound'
  BY PagesFrame DEF GridInv, NoKey, GuiRest, GoTo, NoDevice, Stay, list
<1>4. FavouritesSound'
  BY Drawn, FavouritesFrame DEF GridInv, NoKey, GuiRest, GoTo, NoDevice, favs, list
<1>5. MenuSound'
  BY Drawn DEF GridInv, MenuSound, NoKey, GuiRest, GoTo, screen, Open, OnTheGrid, ActsOnTheChosen
<1>6. WantedSound'
  BY DEF GridInv, WantedSound, NoKey, GuiRest, Placing
<1>7. JobSound'
  BY JobFrame DEF GridInv, NoKey, GuiRest, favs, Placing
<1>8. ViewSound'
  BY Drawn, ViewFrame DEF GridInv, NoKey, GuiRest, favs, GoTo, Stay, NoDevice, list, Showing, Steady, Placing
<1> QED
  BY <1>1, <1>2, <1>3, <1>4, <1>5, <1>6, <1>7, <1>8 DEF GridInv

LEMMA TriangleKept ==
  ASSUME GridInv, gui = "flip", drawn.screen = 0, NEW l2 \in BOOLEAN, Triangle(l2), GuiRest
  PROVE  GridInv'
<1>1. mode_favourites' \in Modes /\ mode_favourites' # 0 /\ mode_favourites # 0
      /\ ~Waits(mode_favourites')
  <2>1. Swap + Selected \in Modes /\ ~Waits(Swap + Selected) /\ Swap + Selected # 0
    <3>1. Selected \in Cells /\ Selected \in Nat
      BY Drawn, Grid DEF Cells
    <3>2. Swap + Selected \in Modes
      BY <3>1 DEF Modes
    <3>3. Insert = 65536 /\ Swap = 131072
      BY ModesAre
    <3> QED
      BY <3>1, <3>2, <3>3 DEF Waits
  <2>2. 1 \in Modes /\ ~Waits(1)
    BY ModesAre DEF Modes, Waits
  <2> QED
    BY <2>1, <2>2 DEF Triangle
<1>2. TypesSound'
  <2>1. currentgamedir' \in Int
    BY GridTypes DEF GridInv, Triangle, SetLast
  <2> QED
    BY <1>1, <2>1, GridTypes, TypesFrame, EvTypeFrame
    DEF GridInv, Triangle, GuiRest, GoTo, NoDevice, OnTheGrid, Stay, screen, list
<1>3. EventsSound'
  BY EventsFrame DEF GridInv, Triangle, GuiRest, GoTo, EventsSound
<1>4. PagesSound'
  BY PagesFrame DEF GridInv, Triangle, GuiRest, GoTo, NoDevice, Stay, list
<1>5. FavouritesSound'
  BY <1>1, Drawn, FavouritesFrame DEF GridInv, Triangle, GuiRest, GoTo, NoDevice, list
<1>6. MenuSound'
  BY Drawn DEF GridInv, MenuSound, Triangle, GuiRest, GoTo, screen, Open, OnTheGrid, ActsOnTheChosen
<1>7. WantedSound'
  BY DEF GridInv, WantedSound, Triangle, GuiRest, Placing
<1>8. JobSound'
  BY <1>1, JobFrame DEF GridInv, Triangle, GuiRest, Placing
<1>9. ViewSound'
  BY <1>1, Drawn, ViewFrame DEF GridInv, Triangle, GuiRest, GoTo, Stay, NoDevice, list, Showing, Steady, Placing
<1> QED
  BY <1>2, <1>3, <1>4, <1>5, <1>6, <1>7, <1>8, <1>9 DEF GridInv

LEMMA SelectWaitsKept ==
  ASSUME GridInv, gui = "flip", drawn.screen = 0, SelectWaits, GuiRest
  PROVE  GridInv'
<1>1. TypesSound'
  <2>1. currentgamedir' \in Int
    BY GridTypes DEF GridInv, SelectWaits, SetLast
  <2> QED
    BY <2>1, GridTypes, TypesFrame, EvTypeFrame
    DEF GridInv, SelectWaits, GuiRest, GoTo, NoDevice, OnTheGrid, Stay, favs, list
<1>2. EventsSound'
  BY EventsFrame DEF GridInv, SelectWaits, GuiRest, GoTo, EventsSound
<1>3. PagesSound'
  BY PagesFrame DEF GridInv, SelectWaits, GuiRest, GoTo, NoDevice, Stay, list
<1>4. FavouritesSound'
  BY Drawn, FavouritesFrame DEF GridInv, SelectWaits, GuiRest, GoTo, NoDevice, favs, list
<1>5. MenuSound'
  BY Drawn DEF GridInv, MenuSound, SelectWaits, GuiRest, GoTo, Open, OnTheGrid, ActsOnTheChosen
<1>6. WantedSound'
  BY DEF GridInv, WantedSound, SelectWaits, GuiRest, Placing
<1>7. JobSound'
  BY JobFrame DEF GridInv, SelectWaits, GuiRest, favs, Placing
<1>8. ViewSound'
  BY Drawn, ViewFrame
  DEF GridInv, SelectWaits, GuiRest, favs, GoTo, Stay, NoDevice, list, Showing, Steady, Placing
<1> QED
  BY <1>1, <1>2, <1>3, <1>4, <1>5, <1>6, <1>7, <1>8 DEF GridInv

\* Two cells change places, or a game comes into one and leaves the other it
\* was in.
LEMMA CrossFavourites ==
  ASSUME GridInv, gui = "flip", drawn.screen = 0, Cross
  PROVE  /\ favourites' \in Favourites
         /\ \A c, d \in Cells : favourites'[c].id = favourites'[d].id /\ favourites'[c].id # 0 => c = d
         /\ \A c \in Cells : favourites'[c].index >= 0 =>
              /\ favourites'[c].id # 0 /\ InList(favourites'[c].index)
              /\ IdAt(favourites'[c].index) = favourites'[c].id
<1> DEFINE Sound(c, i) == i >= 0 => favourites'[c].id # 0 /\ InList(i) /\ IdAt(i) = favourites'[c].id
<1>1. /\ favourites \in Favourites /\ directories \in Seq(Entry) /\ Len(directories) <= Capacity
      /\ Len(directories) \in Nat /\ Capacity \in Nat /\ mode_favourites \in Modes
  BY GridTypes DEF GridInv
<1>2. /\ \A c, d \in Cells : favourites[c].id = favourites[d].id /\ favourites[c].id # 0 => c = d
      /\ \A c \in Cells : favourites[c].index >= 0 =>
           favourites[c].id # 0 /\ InList(favourites[c].index) /\ IdAt(favourites[c].index) = favourites[c].id
      /\ Waits(mode_favourites) => InList(mode_favourites - Insert)
  BY Drawn DEF GridInv, FavouritesSound
<1>3. Selected \in Cells
  BY Drawn
<1>4. CASE mode_favourites >= Swap
  <2>1. mode_favourites - Swap \in Cells
    BY <1>1, <1>4, ModesAre
  <2> DEFINE d0 == mode_favourites - Swap
             c0 == Selected
  <2>2. favourites' = [favourites EXCEPT ![c0] = favourites[d0], ![d0] = favourites[c0]]
    BY <1>4 DEF Cross, SwapCells
  <2>3. c0 \in Cells /\ d0 \in Cells
    BY <1>3, <2>1
  <2> HIDE DEF c0, d0
  <2>4. \A c \in Cells : favourites'[c] = IF c = d0 THEN favourites[c0] ELSE IF c = c0 THEN favourites[d0] ELSE favourites[c]
    BY <1>1, <2>2, <2>3 DEF Favourites
  <2>5. favourites' \in Favourites
    BY <1>1, <2>2, <2>3 DEF Favourites
  <2> QED
    BY <1>2, <2>3, <2>4, <2>5
<1>5. CASE ~(mode_favourites >= Swap)
  <2> DEFINE n == mode_favourites - Insert
             i == directories[n + 1].id
             c0 == Selected
  <2>1. Waits(mode_favourites)
    <3>1. mode_favourites \in Nat /\ mode_favourites >= Insert /\ Insert = 65536 /\ Swap = 131072
      BY <1>1, ModesAre DEF Cross
    <3> QED
      BY <1>5, <3>1 DEF Waits
  <2>2. n \in 0 .. Len(directories) - 1 /\ IdAt(n) = i /\ i \in Nat \ {0} /\ c0 \in Cells
    <3>1. n \in 0 .. Len(directories) - 1
      BY <1>2, <2>1 DEF InList
    <3>2. directories[n + 1] \in Entry
      BY <1>1, <3>1
    <3> QED
      BY <1>3, <3>1, <3>2 DEF IdAt, Entry
  <2>3. favourites' = InsertAtCell(Selected, n)
    BY <1>5 DEF Cross
  <2> HIDE DEF n
  <2>4. favourites' = [[s \in Cells |-> IF favourites[s].id = i THEN [id |-> 0, index |-> -1] ELSE favourites[s]]
                        EXCEPT ![c0] = [id |-> i, index |-> n]]
    BY <1>1, <2>2, <2>3 DEF InsertAtCell, AddFavourites, DeleteFavouritesIfExits, NoFavourite, Favourites
  <2> HIDE DEF i, c0
  <2>5. \A c \in Cells : favourites'[c] = IF c = c0 THEN [id |-> i, index |-> n]
                           ELSE IF favourites[c].id = i THEN [id |-> 0, index |-> -1] ELSE favourites[c]
    BY <2>2, <2>4
  <2>6. favourites' \in Favourites
    <3>1. \A c \in Cells : favourites'[c] \in [id : Nat, index : -1 .. Capacity]
      BY SMTT(30), <1>1, <2>2, <2>5 DEF Favourites
    <3>2. DOMAIN favourites' = Cells /\ favourites' = [c \in Cells |-> favourites'[c]]
      BY <2>4
    <3> QED
      BY <3>1, <3>2 DEF Favourites
  <2>7. InList(n)
    BY <2>2 DEF InList
  <2> QED
    BY <1>2, <2>2, <2>5, <2>6, <2>7
<1> QED
  BY <1>4, <1>5

LEMMA CrossKept ==
  ASSUME GridInv, gui = "flip", drawn.screen = 0, Cross, GuiRest
  PROVE  GridInv'
<1>1. mode_favourites' \in Modes /\ ~Waits(mode_favourites')
  BY ModesAre DEF Cross, Waits, Modes
<1>2. TypesSound'
  BY <1>1, CrossFavourites, GridTypes, TypesFrame, EvTypeFrame
  DEF GridInv, Cross, GuiRest, GetGames, NoDevice, OnTheGrid, Stay, screen, list
<1>3. EventsSound'
  BY EventsFrame DEF GridInv, Cross, GuiRest, GetGames
<1>4. PagesSound'
  BY PagesFrame DEF GridInv, Cross, GuiRest, GetGames, NoDevice, Stay, list
<1>5. FavouritesSound'
  <2>1. \A n : InList(n)' = InList(n) /\ IdAt(n)' = IdAt(n)
    BY DEF Cross, NoDevice, list, InList, IdAt
  <2> QED
    BY <1>1, <2>1, CrossFavourites DEF FavouritesSound
<1>6. MenuSound'
  BY Drawn DEF GridInv, MenuSound, Cross, GuiRest, GetGames, screen, Open, OnTheGrid, ActsOnTheChosen
<1>7. WantedSound'
  BY DEF GridInv, WantedSound, Cross, GuiRest, Placing
<1>8. JobSound' /\ ViewSound'
  BY JobUnsaid, ViewUnsaid DEF Cross, GetGames, Placing
<1> QED
  BY <1>2, <1>3, <1>4, <1>5, <1>6, <1>7, <1>8 DEF GridInv

\* Wherever a turned page leads, it is the favourites or a page of the list.
LEMMA PageTurned ==
  ASSUME GridInv, gui = "flip", PageBack \/ PageOn \/ SamePage
  PROVE  /\ currentdir' \in Pages /\ currentdir' \in Int
         /\ directories # <<>> => InList(currentdir')
         /\ mode_favourites' \in {0, 1, mode_favourites}
         /\ \/ gui' = "wait" /\ then' = "turn" /\ break_get_games' = 1
            \/ gui' = "turn" /\ UNCHANGED <<mode_favourites, currentdir, break_get_games, then>>
<1>1. /\ currentdir \in Pages /\ currentdir \in Int /\ Len(directories) \in Nat
      /\ directories # <<>> => currentdir \in 0 .. Len(directories) - 1
  BY GridTypes DEF GridInv, PagesSound, InList
<1> DEFINE m == Len(directories)
           last == RoundUp(m) - G
<1>2. /\ last \in Pages /\ last \in Int /\ m \in Nat
      /\ m > 0 => last \in 0 .. m - 1
      /\ \A n \in Pages : n < last => n + G < m
  BY <1>1, LastPage, NextPage
<1>3. /\ currentdir + G \in Pages /\ currentdir - G \in Pages /\ 0 \in Pages /\ G \in Nat /\ G > 0
      /\ currentdir + G \in Int /\ currentdir - G \in Int
  BY <1>1, NextPage, Grid
<1>4. directories # <<>> => m > 0
  BY GridTypes DEF GridInv
<1>5. \A n : n \in 0 .. m - 1 => InList(n)
  BY DEF InList
<1> HIDE DEF m
<1>6. CASE gui' = "turn" /\ UNCHANGED <<mode_favourites, currentdir, break_get_games, then>>
  BY <1>1, <1>5, <1>6 DEF m
<1>7. ASSUME NEW mode \in {0, 1}, NEW dir, Turned(mode, dir), dir \in Pages, dir \in Int,
             m > 0 => dir \in 0 .. m - 1
      PROVE  /\ currentdir' \in Pages /\ currentdir' \in Int
             /\ directories # <<>> => InList(currentdir')
             /\ mode_favourites' \in {0, 1, mode_favourites}
             /\ gui' = "wait" /\ then' = "turn" /\ break_get_games' = 1
  BY <1>4, <1>5, <1>7 DEF Turned, GetGames
<1>8. m > 0 => currentdir \in 0 .. m - 1
  BY <1>1 DEF m
<1>9. IfFavourites \in {0, 1}
  BY DEF IfFavourites
<1>10. CASE PageBack
  <2>1. CASE mode_favourites >= Insert /\ GoTo("turn") /\ UNCHANGED <<mode_favourites, currentdir>>
    BY <1>6, <2>1 DEF GoTo
  <2>2. CASE Turned(0, currentdir)
    BY <1>1, <1>7, <1>8, <2>2
  <2>3. CASE currentdir >= G /\ Turned(0, currentdir - G)
    <3>1. m > 0 => currentdir - G \in 0 .. m - 1
      BY <1>1, <1>2, <1>3, <1>8, <2>3
    <3> QED
      BY <1>3, <1>7, <2>3, <3>1
  <2>4. CASE Turned(IfFavourites, last)
    BY <1>2, <1>7, <1>9, <2>4
  <2> QED
    BY <1>10, <2>1, <2>2, <2>3, <2>4 DEF PageBack, m
<1>11. CASE PageOn
  <2>1. CASE mode_favourites >= Insert /\ GoTo("turn") /\ UNCHANGED <<mode_favourites, currentdir>>
    BY <1>6, <2>1 DEF GoTo
  <2>2. CASE Turned(0, currentdir)
    BY <1>1, <1>7, <1>8, <2>2
  <2>3. CASE currentdir < last /\ Turned(0, currentdir + G)
    <3>1. m > 0 => currentdir + G \in 0 .. m - 1
      BY <1>1, <1>2, <1>3, <1>8, <2>3
    <3> QED
      BY <1>3, <1>7, <2>3, <3>1
  <2>4. CASE Turned(IfFavourites, 0)
    <3>1. m > 0 => 0 \in 0 .. m - 1
      BY <1>2
    <3>2. 0 \in Int
      OBVIOUS
    <3> QED
      BY <1>3, <1>7, <1>9, <2>4, <3>1, <3>2
  <2> QED
    BY <1>11, <2>1, <2>2, <2>3, <2>4 DEF PageOn, m
<1>12. CASE SamePage
  BY <1>6, <1>12 DEF SamePage, GoTo
<1> QED
  BY <1>10, <1>11, <1>12

LEMMA NavigateKept ==
  ASSUME GridInv, gui = "flip", drawn.screen = 0, Navigate, GuiRest
  PROVE  GridInv'
<1>1. PageBack \/ PageOn \/ SamePage
  BY DEF Navigate, Move
<1>2. select_px' \in 0 .. W - 1 /\ select_py' \in 0 .. H - 1
  <2>1. select_px \in 0 .. W - 1 /\ select_py \in 0 .. H - 1
    BY GridTypes DEF GridInv
  <2>2. ASSUME NEW dx \in {-1, 0, 1}, NEW dy \in {-1, 0, 1}, Move(dx, dy)
        PROVE  select_px' \in 0 .. W - 1 /\ select_py' \in 0 .. H - 1
    <3>1. select_px' = (select_px + dx) % W /\ select_py' = (select_py + dy) % H
      BY <2>2 DEF Move
    <3>2. W \in Nat /\ W > 0 /\ H \in Nat /\ H > 0 /\ select_px + dx \in Int /\ select_py + dy \in Int
      BY <2>1, Grid
    <3> QED
      BY <3>1, <3>2
  <2>3. CASE Move(0, -1) \/ Move(0, 1) \/ Move(-1, 0) \/ Move(1, 0)
    BY <2>2, <2>3
  <2>4. CASE UNCHANGED <<select_px, select_py>>
    BY <2>1, <2>4
  <2> QED
    BY <2>3, <2>4 DEF Navigate
<1>3. /\ currentdir' \in Pages /\ currentdir' \in Int
      /\ directories # <<>> => InList(currentdir')
      /\ mode_favourites' \in {0, 1, mode_favourites}
      /\ \/ gui' = "wait" /\ then' = "turn" /\ break_get_games' = 1
         \/ gui' = "turn" /\ UNCHANGED <<mode_favourites, currentdir, break_get_games, then>>
  BY <1>1, PageTurned
<1>4. mode_favourites' \in Modes /\ (mode_favourites' = mode_favourites \/ ~Waits(mode_favourites'))
  <2>1. mode_favourites \in Modes
    BY GridTypes DEF GridInv
  <2> QED
    BY <1>3, <2>1, ModesAre DEF Waits, Modes
<1>5. TypesSound'
  <2>1. currentgamedir' \in Int
    BY GridTypes DEF GridInv, Navigate, SetLast
  <2> QED
    BY <1>2, <1>3, <1>4, <2>1, GridTypes, TypesFrame, EvTypeFrame
    DEF GridInv, Navigate, GuiRest, NoDevice, OnTheGrid, screen, list
<1>6. EventsSound'
  BY <1>3, Drawn, EventsFrame DEF GridInv, GuiRest
<1>7. PagesSound'
  <2>1. UNCHANGED <<directories, fdevices, forcedevices>>
    BY DEF Navigate, NoDevice, list
  <2> QED
    BY <1>3, <2>1, Drawn DEF GridInv, PagesSound, InList, Steady
<1>8. FavouritesSound'
  BY <1>4, Drawn, FavouritesFrame DEF GridInv, Navigate, NoDevice, list
<1>9. MenuSound'
  BY <1>3, Drawn DEF GridInv, MenuSound, Navigate, GuiRest, screen, Open, OnTheGrid, ActsOnTheChosen
<1>10. WantedSound'
  BY DEF GridInv, WantedSound, GuiRest, Placing
<1>11. JobSound'
  BY <1>3, JobUnsaid, JobFrame DEF GridInv, Navigate, GuiRest, Placing
<1>12. ViewSound'
  <2>1. CASE gui' = "wait"
    BY <2>1, ViewUnsaid DEF Placing
  <2>2. CASE gui' = "turn" /\ UNCHANGED <<mode_favourites, currentdir>>
    BY <2>2, Drawn, ViewFrame DEF GridInv, Navigate, GuiRest, NoDevice, list, Showing, Steady, Placing
  <2> QED
    BY <1>3, <2>1, <2>2
<1> QED
  BY <1>5, <1>6, <1>7, <1>8, <1>9, <1>10, <1>11, <1>12 DEF GridInv

LEMMA ListResetKept ==
  ASSUME GridInv, gui = "flip", drawn.screen = 0, ListReset, GuiRest
  PROVE  GridInv'
<1>1. /\ directories' = <<>> /\ fdevices' = {} /\ forcedevices' = {} /\ gui' = "turn"
      /\ currentdir' = 0 /\ currentgamedir' = 0 /\ select_px' = 0 /\ select_py' = 0 /\ menu_screen' = 0
      /\ UNCHANGED <<break_get_games, then, listing, mode_favourites, havefavourites, favourites>>
      /\ UNCHANGED <<evVars, plugged, shelf, icons, int_currentdir, job, drawn, raced, stale, wanted>>
      /\ chosen' = NULL /\ acted' = NULL /\ inserted' = FALSE
  BY DEF ListReset, GuiRest, GoTo, OnTheGrid, favs
<1>2. TypesSound'
  <2>1. 0 \in 0 .. W - 1 /\ 0 \in 0 .. H - 1
    BY Grid
  <2>2. <<>> \in Seq(Entry) /\ Len(<<>>) <= Capacity
    BY CapacityAssumption
  <2>3. EvTypeOK'
    BY <1>1, EvTypeFrame DEF GridInv, TypesSound, GgTypeOK
  <2>4. GgTypeOK'
    BY <1>1, <2>1, <2>2, <2>3 DEF GridInv, TypesSound, GgTypeOK
  <2>5. listing' = (gui' = "listing")
    BY <1>1 DEF GridInv, TypesSound
  <2> QED
    <3>1. /\ "hdd" \in plugged'
          /\ shelf' \in [Devices -> SUBSET File] /\ \A d \in Devices : shelf'[d] \subseteq Shelf[d]
          /\ mode_favourites' \in Nat /\ havefavourites' \in BOOLEAN /\ break_get_games' \in {0, 1}
      BY <1>1 DEF GridInv, TypesSound
    <3>2. /\ job' \in [at : {"idle", "cell", "icon", "load"}, fav : BOOLEAN, pass : 0 .. 3, cell : Cells,
                        game : Nat \cup {Outside}]
          /\ then' \in {"turn", "relisted", "frame"} /\ gui' # "exit"
          /\ raced' \in BOOLEAN /\ stale' \in BOOLEAN /\ inserted' \in BOOLEAN
      BY <1>1 DEF GridInv, TypesSound
    <3>3. currentdir' \in Int /\ currentgamedir' \in Int /\ int_currentdir' \in Int /\ Len(directories') <= Capacity
      BY <1>1, <2>2 DEF GridInv, TypesSound
    <3> QED
      BY <2>4, <2>5, <3>1, <3>2, <3>3 DEF TypesSound
<1>3. EventsSound'
  BY <1>1, Drawn, EventsFrame DEF GridInv
<1>4. PagesSound'
  BY <1>1, Grid DEF PagesSound, DiscOnTop
<1>5. FavouritesSound'
  BY <1>1 DEF GridInv, FavouritesSound, Emptied
<1>6. MenuSound'
  BY <1>1 DEF MenuSound, Open, ActsOnTheChosen
<1>7. WantedSound'
  BY <1>1 DEF GridInv, WantedSound, Placing
<1>8. JobSound'
  BY <1>1, JobFrame DEF GridInv, Placing
<1>9. ViewSound'
  BY <1>1 DEF ViewSound, Showing, Steady
<1> QED
  BY <1>2, <1>3, <1>4, <1>5, <1>6, <1>7, <1>8, <1>9 DEF GridInv

\* A favourite that leaves its cell.
LEMMA FavouriteDropped ==
  ASSUME GridInv, gui \in {"flip", "asked"}, NEW id, favourites' = DeleteFavouritesIfExits(favourites, id)
  PROVE  /\ favourites' \in Favourites
         /\ \A c, d \in Cells : favourites'[c].id = favourites'[d].id /\ favourites'[c].id # 0 => c = d
         /\ \A c \in Cells : favourites'[c].index >= 0 =>
              favourites'[c].id # 0 /\ InList(favourites'[c].index) /\ IdAt(favourites'[c].index) = favourites'[c].id
<1>1. favourites \in Favourites /\ Capacity \in Nat
  BY GridTypes DEF GridInv
<1>2. \A c \in Cells : favourites'[c] = IF favourites[c].id = id THEN [id |-> 0, index |-> -1] ELSE favourites[c]
  BY <1>1 DEF DeleteFavouritesIfExits, NoFavourite, Favourites
<1>3. favourites' \in Favourites
  BY <1>1, <1>2 DEF DeleteFavouritesIfExits, NoFavourite, Favourites
<1>4. /\ \A c, d \in Cells : favourites[c].id = favourites[d].id /\ favourites[c].id # 0 => c = d
      /\ \A c \in Cells : favourites[c].index >= 0 =>
           favourites[c].id # 0 /\ InList(favourites[c].index) /\ IdAt(favourites[c].index) = favourites[c].id
  BY Drawn DEF GridInv, FavouritesSound
<1>6. \A c, d \in Cells : favourites'[c].id = favourites'[d].id /\ favourites'[c].id # 0 => c = d
  BY <1>2, <1>4
<1>7. \A c \in Cells : favourites'[c].index >= 0 =>
        favourites'[c].id # 0 /\ InList(favourites'[c].index) /\ IdAt(favourites'[c].index) = favourites'[c].id
  BY <1>2, <1>4
<1> QED
  BY <1>3, <1>6, <1>7

LEMMA SelectMissingKept ==
  ASSUME GridInv, gui = "flip", drawn.screen = 0, SelectMissing, GuiRest
  PROVE  GridInv'
<1>1. mode_favourites' \in Modes /\ ~Waits(mode_favourites') /\ havefavourites' \in BOOLEAN
  BY ModesAre DEF SelectMissing, Waits, Modes, SomeFavourite
<1>2. UNCHANGED directories
  BY DEF SelectMissing, NoDevice, list
<1>3. /\ favourites' \in Favourites
      /\ \A c, d \in Cells : favourites'[c].id = favourites'[d].id /\ favourites'[c].id # 0 => c = d
      /\ \A c \in Cells : favourites'[c].index >= 0 =>
           favourites'[c].id # 0 /\ InList(favourites'[c].index) /\ IdAt(favourites'[c].index) = favourites'[c].id
  BY FavouriteDropped DEF SelectMissing
<1>4. TypesSound'
  <2>1. currentgamedir' \in Int
    BY GridTypes DEF GridInv, SelectMissing, SetLast
  <2> QED
    BY <1>1, <1>3, <2>1, GridTypes, TypesFrame, EvTypeFrame
    DEF GridInv, SelectMissing, GuiRest, GetGames, NoDevice, OnTheGrid, Stay, list
<1>5. EventsSound'
  BY EventsFrame DEF GridInv, SelectMissing, GuiRest, GetGames
<1>6. PagesSound'
  BY PagesFrame DEF GridInv, SelectMissing, GuiRest, GetGames, NoDevice, Stay, list
<1>7. FavouritesSound'
  <2>1. \A n : InList(n)' = InList(n) /\ IdAt(n)' = IdAt(n)
    BY <1>2 DEF InList, IdAt
  <2> QED
    BY <1>1, <1>3, <2>1 DEF FavouritesSound
<1>8. MenuSound'
  BY Drawn DEF GridInv, MenuSound, SelectMissing, GuiRest, GetGames, Open, OnTheGrid, ActsOnTheChosen
<1>9. WantedSound'
  BY DEF GridInv, WantedSound, SelectMissing, GuiRest, Placing
<1>10. JobSound' /\ ViewSound'
  BY JobUnsaid, ViewUnsaid DEF SelectMissing, GetGames, Placing
<1> QED
  BY <1>4, <1>5, <1>6, <1>7, <1>8, <1>9, <1>10 DEF GridInv

-----------------------------------------------------------------------------
(* The screens.                                                            *)

LEMMA OptionsOpen ==
  ASSUME GridInv, gui \in {"flip", "asked"}, drawn.screen # 0
  PROVE  /\ InList(currentgamedir) /\ currentgamedir \in 0 .. Len(directories) - 1
         /\ mode_favourites = 0 => currentgamedir = currentdir + Selected
         /\ ~inserted => chosen = TheGame
         /\ TheGame \in Entry
         /\ wanted = NULL
<1>1. /\ InList(currentgamedir)
      /\ mode_favourites = 0 => currentgamedir = currentdir + Selected
      /\ ~inserted => chosen = TheGame
  BY DEF GridInv, MenuSound, Open
<1>2. currentgamedir \in 0 .. Len(directories) - 1
  BY <1>1 DEF InList
<1>3. TheGame \in Entry
  BY <1>2, GridTypes DEF GridInv, TheGame
<1>4. wanted = NULL
  BY DEF GridInv, WantedSound, Placing
<1> QED
  BY <1>1, <1>2, <1>3, <1>4

\* A key on a screen, and what a player does who leaves it, move nothing.
LEMMA ScreensKept ==
  ASSUME GridInv, gui \in {"flip", "asked"}, drawn.screen # 0,
         OptionsRest, NoMove, NoDevice, UNCHANGED shelf, NoChoice \/ ActOn,
         NEW to \in {"turn", "asked"}, GoTo(to), menu_screen' \in {0, 1, 2},
         to = "asked" => drawn.screen = 1 /\ menu_screen' \in {0, 1}
  PROVE  GridInv'
<1>1. /\ UNCHANGED <<evVars, plugged, last_game, icons, int_currentdir, job, drawn, raced, stale, wanted>>
      /\ UNCHANGED <<currentdir, select_px, select_py, currentgamedir, mode_favourites, havefavourites, favourites>>
      /\ UNCHANGED <<fdevices, forcedevices, directories, listing, shelf>>
      /\ UNCHANGED <<break_get_games, then, chosen, inserted>> /\ gui' = to
  BY DEF OptionsRest, NoMove, NoDevice, NoChoice, ActOn, GoTo, cursor, list
<1>2. TypesSound'
  BY <1>1, GridTypes, TypesFrame, EvTypeFrame DEF GridInv
<1>3. EventsSound'
  BY <1>1, Drawn, EventsFrame DEF GridInv
<1>4. PagesSound'
  BY <1>1, PagesFrame DEF GridInv
<1>5. FavouritesSound'
  BY <1>1, Drawn, FavouritesFrame DEF GridInv
<1>6. MenuSound'
  <2>1. InList(currentgamedir)' /\ TheGame' = TheGame /\ Selected' = Selected
    BY <1>1, OptionsOpen DEF InList, TheGame, Selected
  <2>2. ActsOnTheChosen'
    <3>1. CASE NoChoice
      BY <3>1 DEF NoChoice, GridInv, MenuSound, ActsOnTheChosen
    <3>2. CASE ActOn
      BY <3>2, OptionsOpen DEF ActOn, ActsOnTheChosen
    <3> QED
      BY <3>1, <3>2
  <2> QED
    BY <1>1, <2>1, <2>2, OptionsOpen DEF MenuSound
<1>7. WantedSound'
  BY <1>1, OptionsOpen DEF WantedSound
<1>8. JobSound'
  BY <1>1, JobFrame DEF GridInv, Placing
<1>9. ViewSound'
  BY <1>1, Drawn, ViewFrame DEF GridInv, Showing, Steady, Placing
<1> QED
  BY <1>2, <1>3, <1>4, <1>5, <1>6, <1>7, <1>8, <1>9 DEF GridInv

LEMMA DrawOptionsScreens ==
  ASSUME GridInv, gui = "flip", drawn.screen = 1, ShowConfig \/ BackToGrid \/ AskFtp, OptionsRest
  PROVE  GridInv'
<1>1. CASE ShowConfig
  BY <1>1, ScreensKept DEF ShowConfig
<1>2. CASE BackToGrid
  BY <1>2, ScreensKept DEF BackToGrid, CloseOptions
<1>3. CASE AskFtp
  BY <1>3, Drawn, ScreensKept DEF AskFtp, screen
<1> QED
  BY <1>1, <1>2, <1>3

LEMMA RefusedKept ==
  ASSUME GridInv, Refused, OptionsRest
  PROVE  GridInv'
<1>1. gui = "asked" /\ drawn.screen = 1 /\ menu_screen' = menu_screen /\ menu_screen \in {0, 1, 2}
  BY GridTypes DEF Refused, GridInv, MenuSound, screen
<1> QED
  BY <1>1, ScreensKept DEF Refused

LEMMA DrawConfigsKept ==
  ASSUME GridInv, DrawConfigs, OptionsRest
  PROVE  GridInv'
<1>1. gui = "flip" /\ drawn.screen = 2 /\ menu_screen \in {0, 1, 2} /\ (NoChoice \/ ActOn)
      /\ (menu_screen' = menu_screen \/ menu_screen' = 1)
  BY GridTypes DEF DrawConfigs, SaveConfig, LeaveConfig, GridInv, screen
<1> QED
  BY <1>1, ScreensKept DEF DrawConfigs

LEMMA NoPadKept ==
  ASSUME GridInv, NoPad
  PROVE  GridInv'
<1>1. menu_screen' = menu_screen /\ menu_screen \in {0, 1, 2}
  BY GridTypes DEF NoPad, GridInv, screen
<1> QED
  BY <1>1, ScreensKept DEF NoPad

\* A game is deleted and its device is due to be listed again; a disc is
\* left alone, and the cursor was on it if the list is shown.
LEMMA DeleteKept ==
  ASSUME GridInv, gui \in {"flip", "asked"}, drawn.screen = 1, NEW confirmed \in BOOLEAN, Delete(confirmed),
         OptionsRest
  PROVE  GridInv'
<1>1. /\ UNCHANGED <<evVars, plugged, last_game, icons, int_currentdir, job, drawn, raced, stale, wanted>>
      /\ UNCHANGED <<mode_favourites, havefavourites, favourites, fdevices, directories, listing>>
      /\ UNCHANGED <<break_get_games, then>> /\ gui' = "turn" /\ menu_screen' = 0
      /\ currentgamedir' = 0 /\ currentdir' = 0 /\ select_px' = 0 /\ select_py' = 0
      /\ NoChoice \/ ActOn
  BY DEF OptionsRest, Delete, CloseOptions, GoTo, favs, NoDevice, list, Gone
<1>2. UNCHANGED <<chosen, inserted>>
  BY <1>1 DEF NoChoice, ActOn
<1>3. forcedevices' \subseteq Devices /\ shelf' \in [Devices -> SUBSET File]
      /\ \A d \in Devices : shelf'[d] \subseteq Shelf[d]
  <2>1. /\ shelf \in [Devices -> SUBSET File] /\ \A d \in Devices : shelf[d] \subseteq Shelf[d]
        /\ forcedevices \subseteq Devices
    BY DEF GridInv, TypesSound, GgTypeOK
  <2>2. TheGame.dev \in Devices
    BY OptionsOpen DEF Entry
  <2> QED
    BY <2>1, <2>2 DEF Delete, NoDevice, Gone
<1>4. TypesSound'
  <2>1. 0 \in 0 .. W - 1 /\ 0 \in 0 .. H - 1
    BY Grid
  <2>2. EvTypeOK'
    BY <1>1, EvTypeFrame DEF GridInv, TypesSound, GgTypeOK
  <2>3. GgTypeOK'
    BY <1>1, <1>3, <2>1, <2>2 DEF GridInv, TypesSound, GgTypeOK
  <2>4. listing' = (gui' = "listing")
    BY <1>1 DEF GridInv, TypesSound
  <2>5. /\ "hdd" \in plugged'
        /\ mode_favourites' \in Nat /\ havefavourites' \in BOOLEAN /\ break_get_games' \in {0, 1}
    BY <1>1 DEF GridInv, TypesSound
  <2>6. /\ job' \in [at : {"idle", "cell", "icon", "load"}, fav : BOOLEAN, pass : 0 .. 3, cell : Cells,
                     game : Nat \cup {Outside}]
        /\ then' \in {"turn", "relisted", "frame"} /\ gui' # "exit"
        /\ raced' \in BOOLEAN /\ stale' \in BOOLEAN /\ inserted' \in BOOLEAN
    BY <1>1, <1>2 DEF GridInv, TypesSound
  <2>7. currentdir' \in Int /\ currentgamedir' \in Int /\ int_currentdir' \in Int /\ Len(directories') <= Capacity
    BY <1>1 DEF GridInv, TypesSound
  <2> QED
    BY <1>3, <2>3, <2>4, <2>5, <2>6, <2>7 DEF TypesSound
<1>5. EventsSound'
  BY <1>1, Drawn, EventsFrame DEF GridInv
<1>6. PagesSound'
  <2>1. InList(0)
    BY OptionsOpen, GridTypes DEF GridInv, InList
  <2> QED
    BY <1>1, <2>1, Grid DEF GridInv, PagesSound, InList
<1>7. FavouritesSound'
  BY <1>1, Drawn, FavouritesFrame DEF GridInv
<1>8. MenuSound'
  <2>1. ActsOnTheChosen'
    <3>1. CASE NoChoice
      BY <3>1 DEF NoChoice, GridInv, MenuSound, ActsOnTheChosen
    <3>2. CASE ActOn
      BY <3>2, OptionsOpen DEF ActOn, ActsOnTheChosen
    <3> QED
      BY <1>1, <3>1, <3>2
  <2> QED
    BY <1>1, <2>1 DEF MenuSound, Open
<1>9. WantedSound'
  BY <1>1, OptionsOpen DEF WantedSound
<1>10. JobSound'
  BY <1>1, JobFrame DEF GridInv, Placing
<1>11. ViewSound'
  <2>1. CASE IsDisc(TheGame)
    <3>1. UNCHANGED forcedevices
      BY <2>1 DEF Delete, NoDevice
    <3>2. mode_favourites = 0 => currentdir' = currentdir
      <4>1. currentgamedir = 0
        <5>1. currentgamedir + 1 \in 1 .. Len(directories) /\ IsDisc(directories[currentgamedir + 1])
              /\ currentgamedir \in Int
          BY <2>1, OptionsOpen, GridTypes DEF GridInv, TheGame
        <5>2. DiscOnTop(directories)
          BY DEF GridInv, PagesSound
        <5>3. currentgamedir + 1 = 1
          BY <5>1, <5>2 DEF DiscOnTop
        <5> QED
          BY <5>1, <5>3
      <4>2. directories # <<>>
        BY OptionsOpen DEF InList
      <4>3. currentdir \in 0 .. Len(directories) - 1 /\ Len(directories) \in Nat
        BY <4>2, GridTypes DEF GridInv, PagesSound, InList
      <4>4. Selected \in Nat
        BY Drawn, Grid DEF Cells
      <4> QED
        BY <1>1, <4>1, <4>3, <4>4, OptionsOpen
    <3> QED
      BY <1>1, <3>1, <3>2, Drawn, ViewFrame DEF GridInv, Showing, Steady, Placing
  <2>2. CASE ~IsDisc(TheGame)
    <3>1. forcedevices' # {}
      BY <2>2 DEF Delete
    <3> QED
      BY <1>1, <3>1 DEF ViewSound, Showing, Steady
  <2> QED
    BY <2>1, <2>2
<1> QED
  BY <1>4, <1>5, <1>6, <1>7, <1>8, <1>9, <1>10, <1>11 DEF GridInv

LEMMA ToggleFavouriteKept ==
  ASSUME GridInv, gui = "flip", drawn.screen = 1, ToggleFavourite, OptionsRest
  PROVE  GridInv'
<1>1. /\ UNCHANGED <<evVars, plugged, shelf, last_game, icons, int_currentdir, job, drawn, raced, stale, wanted>>
      /\ UNCHANGED <<fdevices, forcedevices, directories, listing>>
      /\ UNCHANGED <<currentdir, select_px, select_py, currentgamedir, chosen, inserted>>
      /\ break_get_games' = 1 /\ gui' = "wait" /\ then' = "turn" /\ acted' = TheGame
  BY DEF OptionsRest, ToggleFavourite, GetGames, NoDevice, list, cursor, ActOn
<1>2. /\ mode_favourites' = mode_favourites \/ menu_screen' = 0
      /\ menu_screen' \in {0, menu_screen} /\ havefavourites' \in BOOLEAN
  BY GridTypes DEF GridInv, ToggleFavourite, CloseOptions, screen, SomeFavourite
<1>3. currentgamedir \in 0 .. Capacity - 1 /\ InList(currentgamedir)
  BY OptionsOpen, GridTypes DEF GridInv
<1>4. /\ mode_favourites' \in Modes
      /\ mode_favourites' \in {mode_favourites, 0} \/ mode_favourites' = Insert + currentgamedir
  <2>1. mode_favourites' \in {mode_favourites, 0} \/ mode_favourites' = Insert + currentgamedir
    BY DEF ToggleFavourite
  <2>2. mode_favourites \in Modes /\ 0 \in Modes /\ Insert + currentgamedir \in Modes
    BY <1>3, GridTypes DEF GridInv, Modes
  <2> QED
    BY <2>1, <2>2
<1>5. /\ favourites' \in Favourites
      /\ \A c, d \in Cells : favourites'[c].id = favourites'[d].id /\ favourites'[c].id # 0 => c = d
      /\ \A c \in Cells : favourites'[c].index >= 0 =>
           favourites'[c].id # 0 /\ InList(favourites'[c].index) /\ IdAt(favourites'[c].index) = favourites'[c].id
  <2>1. CASE TestFavouritesExits(favourites, TheGame.id)
    BY <2>1, FavouriteDropped DEF ToggleFavourite
  <2>2. CASE ~TestFavouritesExits(favourites, TheGame.id)
    BY <2>2, Drawn, GridTypes DEF ToggleFavourite, GridInv, FavouritesSound
  <2> QED
    BY <2>1, <2>2
<1>6. TypesSound'
  BY <1>1, <1>2, <1>4, <1>5, GridTypes, TypesFrame, EvTypeFrame DEF GridInv
<1>7. EventsSound'
  BY <1>1, EventsFrame DEF GridInv
<1>8. PagesSound'
  BY <1>1, PagesFrame DEF GridInv
<1>9. FavouritesSound'
  <2>1. \A n : InList(n)' = InList(n) /\ IdAt(n)' = IdAt(n)
    BY <1>1 DEF InList, IdAt
  <2>2. Waits(mode_favourites') => InList(mode_favourites' - Insert)
    <3>1. CASE mode_favourites' = mode_favourites
      BY <3>1, Drawn DEF GridInv, FavouritesSound
    <3>2. CASE mode_favourites' = 0
      BY <3>2, ModesAre DEF Waits
    <3>3. CASE mode_favourites' = Insert + currentgamedir
      <4>1. mode_favourites' - Insert = currentgamedir
        BY <1>3, <3>3, ModesAre, CapacityAssumption
      <4> QED
        BY <1>3, <4>1
    <3> QED
      BY <1>4, <3>1, <3>2, <3>3
  <2> QED
    BY <1>5, <2>1, <2>2 DEF FavouritesSound, Waits
<1>10. MenuSound'
  <2>1. InList(currentgamedir)' /\ TheGame' = TheGame /\ Selected' = Selected
    BY <1>1, OptionsOpen DEF InList, TheGame, Selected
  <2>2. ActsOnTheChosen'
    BY <1>1, OptionsOpen DEF ActsOnTheChosen
  <2> QED
    BY <1>1, <1>2, <2>1, <2>2, OptionsOpen DEF MenuSound, Open
<1>11. WantedSound'
  BY <1>1, OptionsOpen DEF WantedSound
<1>12. JobSound' /\ ViewSound'
  BY <1>1, JobUnsaid, ViewUnsaid DEF Placing
<1> QED
  BY <1>6, <1>7, <1>8, <1>9, <1>10, <1>11, <1>12 DEF GridInv

-----------------------------------------------------------------------------
(* Discs and devices.                                                      *)

LEMMA DiscInsertKept ==
  ASSUME GridInv, DiscInsertCallback
  PROVE  GridInv'
<1>1. /\ gui \in {"flip", "asked"} /\ mode_favourites' = 0 /\ menu_screen' = 0
      /\ select_px' = 0 /\ select_py' = 0 /\ currentgamedir' = 0 /\ currentdir' = 0
      /\ inserted' = TRUE /\ stale' = TRUE
      /\ UNCHANGED <<evVars, shelf, fdevices, forcedevices, directories, listing, havefavourites, favourites>>
      /\ UNCHANGED <<icons, int_currentdir, break_get_games, job, gui, then, drawn, raced, chosen, acted, wanted>>
      /\ plugged' \in {plugged, plugged \cup {"bdvd"}}
  BY DEF DiscInsertCallback, list, loader
<1>2. TypesSound'
  <2>1. 0 \in 0 .. W - 1 /\ 0 \in 0 .. H - 1
    BY Grid
  <2>2. EvTypeOK'
    BY <1>1, EvTypeFrame DEF GridInv, TypesSound, GgTypeOK
  <2>3. plugged' \subseteq Devices /\ "hdd" \in plugged'
    BY <1>1 DEF GridInv, TypesSound, GgTypeOK, Devices
  <2>4. GgTypeOK'
    BY <1>1, <2>1, <2>2, <2>3 DEF GridInv, TypesSound, GgTypeOK
  <2>5. listing' = (gui' = "listing")
    BY <1>1 DEF GridInv, TypesSound
  <2>6. /\ shelf' \in [Devices -> SUBSET File] /\ \A d \in Devices : shelf'[d] \subseteq Shelf[d]
        /\ mode_favourites' \in Nat /\ havefavourites' \in BOOLEAN /\ break_get_games' \in {0, 1}
    BY <1>1 DEF GridInv, TypesSound
  <2>7. /\ job' \in [at : {"idle", "cell", "icon", "load"}, fav : BOOLEAN, pass : 0 .. 3, cell : Cells,
                     game : Nat \cup {Outside}]
        /\ then' \in {"turn", "relisted", "frame"} /\ gui' # "exit"
        /\ raced' \in BOOLEAN /\ stale' \in BOOLEAN /\ inserted' \in BOOLEAN
    BY <1>1 DEF GridInv, TypesSound
  <2>8. currentdir' \in Int /\ currentgamedir' \in Int /\ int_currentdir' \in Int /\ Len(directories') <= Capacity
    BY <1>1 DEF GridInv, TypesSound
  <2> QED
    BY <2>3, <2>4, <2>5, <2>6, <2>7, <2>8 DEF TypesSound
<1>3. EventsSound'
  BY <1>1, Drawn, EventsFrame DEF GridInv
<1>4. PagesSound'
  <2>1. directories # <<>> => InList(0)
    BY GridTypes DEF GridInv, InList
  <2> QED
    BY <1>1, <2>1, Grid DEF GridInv, PagesSound, InList, Steady
<1>5. FavouritesSound'
  <2>1. ~Waits(0)
    BY ModesAre DEF Waits
  <2> QED
    BY <1>1, <2>1, Drawn, FavouritesFrame DEF GridInv, Relisting, Placing
<1>6. MenuSound'
  <2>1. drawn.screen # 0 => InList(0)
    BY <1>1, OptionsOpen, GridTypes DEF GridInv, InList
  <2>2. Selected' = 0
    BY <1>1, Grid DEF Selected
  <2> QED
    BY <1>1, <2>1, <2>2 DEF GridInv, MenuSound, Open, InList, ActsOnTheChosen
<1>7. WantedSound'
  BY <1>1 DEF GridInv, WantedSound, Placing
<1>8. JobSound' /\ ViewSound'
  BY <1>1, JobUnsaid DEF ViewSound
<1> QED
  BY <1>2, <1>3, <1>4, <1>5, <1>6, <1>7, <1>8 DEF GridInv

LEMMA DevicesChangeKept ==
  ASSUME GridInv, DevicesChange
  PROVE  GridInv'
<1>1. /\ gui \in {"flip", "asked"}
      /\ UNCHANGED <<evVars, shelf, fdevices, forcedevices, directories, listing, mode_favourites>>
      /\ UNCHANGED <<havefavourites, favourites, currentdir, select_px, select_py, currentgamedir, menu_screen>>
      /\ UNCHANGED <<icons, int_currentdir, break_get_games, job, gui, then, drawn>>
      /\ UNCHANGED <<raced, stale, chosen, acted, inserted, wanted>>
      /\ plugged' \in {plugged \ {"bdvd"}, plugged \cup {"usb"}, plugged \ {"usb"}}
  BY DEF DevicesChange, list, loader, cursor, screen, favs, history
<1>2. TypesSound'
  <2>1. plugged' \subseteq Devices /\ "hdd" \in plugged'
    BY <1>1 DEF GridInv, TypesSound, GgTypeOK, Devices
  <2>2. EvTypeOK'
    BY <1>1, EvTypeFrame DEF GridInv, TypesSound, GgTypeOK
  <2>3. GgTypeOK'
    BY <1>1, <2>1, <2>2 DEF GridInv, TypesSound, GgTypeOK
  <2>4. listing' = (gui' = "listing")
    BY <1>1 DEF GridInv, TypesSound
  <2>5. /\ shelf' \in [Devices -> SUBSET File] /\ \A d \in Devices : shelf'[d] \subseteq Shelf[d]
        /\ mode_favourites' \in Nat /\ havefavourites' \in BOOLEAN /\ break_get_games' \in {0, 1}
    BY <1>1 DEF GridInv, TypesSound
  <2>6. /\ job' \in [at : {"idle", "cell", "icon", "load"}, fav : BOOLEAN, pass : 0 .. 3, cell : Cells,
                     game : Nat \cup {Outside}]
        /\ then' \in {"turn", "relisted", "frame"} /\ gui' # "exit"
        /\ raced' \in BOOLEAN /\ stale' \in BOOLEAN /\ inserted' \in BOOLEAN
    BY <1>1 DEF GridInv, TypesSound
  <2>7. currentdir' \in Int /\ currentgamedir' \in Int /\ int_currentdir' \in Int /\ Len(directories') <= Capacity
    BY <1>1 DEF GridInv, TypesSound
  <2> QED
    BY <2>1, <2>3, <2>4, <2>5, <2>6, <2>7 DEF TypesSound
<1>3. EventsSound'
  BY <1>1, Drawn, EventsFrame DEF GridInv
<1>4. PagesSound'
  BY <1>1, PagesFrame DEF GridInv
<1>5. FavouritesSound'
  BY <1>1, Drawn, FavouritesFrame DEF GridInv, Relisting, Placing
<1>6. MenuSound'
  BY <1>1, MenuFrame DEF GridInv, Open, Relisting, MenuSound
<1>7. WantedSound'
  BY <1>1 DEF GridInv, WantedSound, Placing
<1>8. JobSound'
  BY <1>1, JobFrame DEF GridInv, Placing
<1>9. ViewSound'
  BY <1>1, Drawn, ViewFrame DEF GridInv, Showing, Steady, Placing
<1> QED
  BY <1>2, <1>3, <1>4, <1>5, <1>6, <1>7, <1>8, <1>9 DEF GridInv

-----------------------------------------------------------------------------
(* The queue.                                                              *)

LEMMA CallsAreEvents == Calls \subseteq Event /\ \A e \in Calls : e.code # "exit" /\ e.func # NULL
<1>1. get_games_2 \in Funcs /\ get_pict \in Funcs
  BY GameGridAssumption
<1>2. get_games_2 # NULL /\ get_pict # NULL
  BY <1>1, NullAssumption
<1> QED
  BY <1>1, <1>2 DEF Calls, Event, Call

LEMMA Sent ==
  ASSUME GridInv, NEW e \in Calls, event_thread_send(e)
  PROVE  /\ EvTypeOK'
         /\ \A i \in 1 .. Len(evQ') : evQ'[i] \in Calls
         /\ \A i \in 1 .. Len(evQ) : i \in 1 .. Len(evQ') /\ evQ'[i] = evQ[i]
         /\ CanSend => \E i \in 1 .. Len(evQ') : evQ'[i] = e
<1>1. evQ \in Seq(Event) /\ Len(evQ) <= QueueSize /\ \A i \in 1 .. Len(evQ) : evQ[i] \in Calls
  BY DEF GridInv, TypesSound, GgTypeOK, EvTypeOK, EventsSound
<1>2. e \in Event /\ QueueSize \in Nat
  BY CallsAreEvents, QueueSizeAssumption
<1> DEFINE q == evQ
           r == evQ'
<1>3. q \in Seq(Event) /\ Len(q) \in Nat /\ Len(q) <= QueueSize
  BY <1>1
<1>4. CASE CanSend
  <2>1. r = Append(q, e) /\ Len(q) < QueueSize
    BY <1>4 DEF event_thread_send, CanSend
  <2> HIDE DEF q, r
  <2>2. r \in Seq(Event) /\ Len(r) = Len(q) + 1 /\ r[Len(q) + 1] = e /\ \A i \in 1 .. Len(q) : r[i] = q[i]
    BY <1>2, <1>3, <2>1
  <2>3. Len(r) <= QueueSize /\ \A i \in 1 .. Len(q) : i \in 1 .. Len(r)
    BY <1>2, <1>3, <2>1, <2>2
  <2>4. \A i \in 1 .. Len(r) : i \in 1 .. Len(q) \/ i = Len(q) + 1
    BY <1>3, <2>2
  <2>5. Len(q) + 1 \in 1 .. Len(r)
    BY <1>3, <2>2
  <2>6. \A i \in 1 .. Len(r) : r[i] \in Calls
    BY <1>1, <2>2, <2>4 DEF q
  <2>7. EvTypeOK'
    BY <2>2, <2>3 DEF r, GridInv, TypesSound, GgTypeOK, EvTypeOK, event_thread_send
  <2> QED
    BY <2>2, <2>3, <2>5, <2>6, <2>7 DEF q, r
<1>5. CASE ~CanSend
  <2>1. UNCHANGED evVars
    BY <1>5 DEF event_thread_send, evVars
  <2>2. UNCHANGED evQ
    BY <2>1 DEF evVars
  <2> QED
    BY <1>1, <1>5, <2>1, <2>2, EvTypeFrame DEF GridInv, TypesSound, GgTypeOK
<1> QED
  BY <1>4, <1>5

\* The wait that returns found no loader at work.
LEMMA WaitReturns ==
  ASSUME GridInv, wait_returns
  PROVE  job.at = "idle"
BY DEF GridInv, EventsSound, wait_returns

LEMMA SelectOpensKept ==
  ASSUME GridInv, SelectOpens
  PROVE  GridInv'
<1>1. /\ gui = "waitpict" /\ gui' = "turn" /\ wait_returns /\ event_thread_send(Call(get_pict))
      /\ int_currentdir' = currentdir /\ currentgamedir' = get_currentdir(Selected)
      /\ UNCHANGED <<plugged, shelf, fdevices, forcedevices, directories, listing, mode_favourites>>
      /\ UNCHANGED <<havefavourites, favourites, currentdir, select_px, select_py>>
      /\ UNCHANGED <<icons, break_get_games, job, then, drawn, raced, stale, wanted>>
  BY DEF SelectOpens, GoTo, Stay, NoDevice, list, favs
<1>2. Call(get_pict) \in Calls
  BY DEF Calls
<1>3. /\ EvTypeOK'
      /\ \A i \in 1 .. Len(evQ') : evQ'[i] \in Calls
      /\ \A i \in 1 .. Len(evQ) : i \in 1 .. Len(evQ') /\ evQ'[i] = evQ[i]
  BY <1>1, <1>2, Sent
<1>4. UNCHANGED <<init, event_thread_working, wpc, event>>
  BY <1>1 DEF event_thread_send
<1>5. job.at = "idle"
  BY <1>1, WaitReturns
<1>6. break_get_games = 0 /\ Steady /\ menu_screen = 0 /\ wanted = NULL
  BY <1>1 DEF GridInv, EventsSound, PagesSound, MenuSound, WantedSound, Placing
<1>7. TypesSound'
  <2>1. menu_screen' \in {0, 1, 2} /\ inserted' \in BOOLEAN
    BY GridTypes DEF GridInv, SelectOpens
  <2> QED
    BY <1>1, <1>3, <2>1, GridTypes, TypesFrame DEF GridInv
<1>8. EventsSound'
  BY <1>1, <1>3, <1>4, <1>5, <1>6 DEF GridInv, EventsSound
<1>9. PagesSound'
  BY <1>1, PagesFrame DEF GridInv
<1>10. FavouritesSound'
  BY <1>1, <1>6, FavouritesFrame DEF GridInv, Relisting, Placing, Emptied
<1>11. MenuSound'
  <2> DEFINE n == get_currentdir(Selected)
  <2>1. CASE InList(n)
    <3>1. menu_screen' = 1 /\ chosen' = directories[n + 1] /\ acted' = NULL /\ inserted' = FALSE
      BY <2>1 DEF SelectOpens
    <3>2. InList(currentgamedir)' /\ TheGame' = directories[n + 1] /\ Selected' = Selected
      BY <1>1, <2>1 DEF InList, TheGame, Selected
    <3>3. mode_favourites' = 0 => currentgamedir' = currentdir' + Selected
      BY <1>1 DEF get_currentdir
    <3> QED
      BY <1>1, <3>1, <3>2, <3>3 DEF MenuSound, ActsOnTheChosen
  <2>2. CASE ~InList(n)
    <3>1. UNCHANGED <<menu_screen, chosen, acted, inserted>>
      BY <2>2 DEF SelectOpens
    <3> QED
      BY <1>1, <1>6, <3>1 DEF GridInv, MenuSound, ActsOnTheChosen, Open
  <2> QED
    BY <2>1, <2>2
<1>12. WantedSound'
  BY <1>1, <1>6, WantedNone
<1>13. JobSound'
  BY <1>1, JobFrame DEF GridInv, Placing
<1>14. ViewSound'
  <2>1. \A c \in Cells : Shows(c)' = Shows(c)
    BY <1>1 DEF Shows, PictureOf, InList, get_currentdir, IdAt
  <2>2. Norm(int_currentdir)' = Norm(currentdir)'
    BY <1>1 DEF Norm, InList
  <2>3. Coming => Coming'
    <3>1. ASSUME NEW i \in 1 .. Len(evQ), evQ[i] = Call(get_games_2)
          PROVE  \E j \in 1 .. Len(evQ') : evQ'[j] = Call(get_games_2)
      BY <1>3, <3>1
    <3> QED
      BY <1>4, <3>1 DEF Coming
  <2>4. Showing
    BY <1>1, <1>6 DEF Showing, Placing
  <2> QED
    BY <1>1, <1>5, <2>1, <2>2, <2>3, <2>4 DEF GridInv, ViewSound
<1> QED
  BY <1>7, <1>8, <1>9, <1>10, <1>11, <1>12, <1>13, <1>14 DEF GridInv

-----------------------------------------------------------------------------
(* get_games.                                                              *)

LEMMA GetGamesWaitsKept ==
  ASSUME GridInv, GetGamesWaits
  PROVE  GridInv'
<1>1. /\ gui = "wait" /\ gui' = "lower" /\ wait_returns
      /\ UNCHANGED <<evVars, plugged, shelf, fdevices, forcedevices, directories, listing, mode_favourites>>
      /\ UNCHANGED <<havefavourites, favourites, currentdir, select_px, select_py, currentgamedir, menu_screen>>
      /\ UNCHANGED <<icons, int_currentdir, break_get_games, job, then, drawn>>
      /\ UNCHANGED <<raced, stale, chosen, acted, inserted, wanted>>
  BY DEF GetGamesWaits, Step, list, cursor, screen, favs, devs
<1>2. job.at = "idle" /\ Steady
  BY <1>1, WaitReturns DEF GridInv, PagesSound
<1>3. TypesSound'
  BY <1>1, GridTypes, TypesFrame, EvTypeFrame DEF GridInv
<1>4. EventsSound'
  BY <1>1, EventsFrame DEF GridInv
<1>5. PagesSound'
  BY <1>1, PagesFrame DEF GridInv
<1>6. FavouritesSound'
  BY <1>1, <1>2, FavouritesFrame DEF GridInv, Relisting, Placing, Emptied
<1>7. MenuSound'
  BY <1>1, MenuFrame DEF GridInv, Open, Relisting, Placing
<1>8. WantedSound'
  BY <1>1 DEF GridInv, WantedSound, Placing, IdAt, get_currentdir, Selected
<1>9. JobSound'
  BY <1>1, <1>2 DEF JobSound, Placing
<1>10. ViewSound'
  BY <1>1, ViewUnsaid DEF Placing
<1> QED
  BY <1>3, <1>4, <1>5, <1>6, <1>7, <1>8, <1>9, <1>10 DEF GridInv

LEMMA GetGamesLowersKept ==
  ASSUME GridInv, GetGamesLowers
  PROVE  GridInv'
<1>1. /\ gui = "lower" /\ gui' = "dir" /\ break_get_games' = 0
      /\ UNCHANGED <<evVars, plugged, shelf, fdevices, forcedevices, directories, listing, mode_favourites>>
      /\ UNCHANGED <<havefavourites, favourites, currentdir, select_px, select_py, currentgamedir, menu_screen>>
      /\ UNCHANGED <<icons, int_currentdir, job, then, drawn>>
      /\ UNCHANGED <<raced, stale, chosen, acted, inserted, wanted>>
  BY DEF GetGamesLowers, Step, list, cursor, screen, favs, devs
<1>2. Steady
  BY <1>1 DEF GridInv, PagesSound
<1>3. TypesSound'
  BY <1>1, GridTypes, TypesFrame, EvTypeFrame DEF GridInv
<1>4. EventsSound'
  BY <1>1, EventsFrame DEF GridInv
<1>5. PagesSound'
  BY <1>1, PagesFrame DEF GridInv
<1>6. FavouritesSound'
  BY <1>1, <1>2, FavouritesFrame DEF GridInv, Relisting, Placing, Emptied
<1>7. MenuSound'
  BY <1>1, MenuFrame DEF GridInv, Open, Relisting, Placing
<1>8. WantedSound'
  BY <1>1 DEF GridInv, WantedSound, Placing, IdAt, get_currentdir, Selected
<1>9. JobSound'
  BY <1>1, JobFrame DEF GridInv, Placing
<1>10. ViewSound'
  BY <1>1, ViewUnsaid DEF Placing
<1> QED
  BY <1>3, <1>4, <1>5, <1>6, <1>7, <1>8, <1>9, <1>10 DEF GridInv

LEMMA GetGamesPlacesKept ==
  ASSUME GridInv, GetGamesPlaces
  PROVE  GridInv'
<1>1. /\ gui = "dir" /\ gui' = "send" /\ int_currentdir' = currentdir
      /\ UNCHANGED <<evVars, plugged, shelf, fdevices, forcedevices, directories, listing, mode_favourites>>
      /\ UNCHANGED <<havefavourites, favourites, currentdir, select_px, select_py, currentgamedir, menu_screen>>
      /\ UNCHANGED <<icons, break_get_games, job, then, drawn>>
      /\ UNCHANGED <<raced, stale, chosen, acted, inserted, wanted>>
  BY DEF GetGamesPlaces, Step, list, cursor, screen, favs, devs
<1>2. Steady /\ break_get_games = 0
  BY <1>1 DEF GridInv, PagesSound, EventsSound
<1>3. TypesSound'
  BY <1>1, GridTypes, TypesFrame, EvTypeFrame DEF GridInv
<1>4. EventsSound'
  BY <1>1, <1>2, EventsFrame DEF GridInv
<1>5. PagesSound'
  BY <1>1, PagesFrame DEF GridInv
<1>6. FavouritesSound'
  BY <1>1, <1>2, FavouritesFrame DEF GridInv, Relisting, Placing, Emptied
<1>7. MenuSound'
  BY <1>1, MenuFrame DEF GridInv, Open, Relisting, Placing
<1>8. WantedSound'
  BY <1>1 DEF GridInv, WantedSound, Placing, IdAt, get_currentdir, Selected
<1>9. JobSound'
  BY <1>1, JobFrame DEF GridInv, Placing
<1>10. ViewSound'
  BY <1>1 DEF ViewSound, Showing, Placing, Norm, InList
<1> QED
  BY <1>3, <1>4, <1>5, <1>6, <1>7, <1>8, <1>9, <1>10 DEF GridInv

\* The pictures are gone and the loader is on its way, unless it was found
\* at work or the queue was full.
LEMMA GetGamesSendsKept ==
  ASSUME GridInv, GetGamesSends
  PROVE  GridInv'
<1>1. /\ gui = "send" /\ gui' = then /\ then' = "turn" /\ icons' = [c \in Cells |-> 0]
      /\ event_thread_send(Call(get_games_2))
      /\ raced' = (wpc = "run" /\ event.func = get_games_2) /\ stale' = ~CanSend
      /\ UNCHANGED <<plugged, shelf, fdevices, forcedevices, directories, listing, mode_favourites>>
      /\ UNCHANGED <<havefavourites, favourites, currentdir, select_px, select_py, currentgamedir, menu_screen>>
      /\ UNCHANGED <<int_currentdir, break_get_games, job, drawn, chosen, acted, inserted, wanted>>
  BY DEF GetGamesSends, list, cursor, screen, favs, devs
<1>2. Call(get_games_2) \in Calls
  BY DEF Calls
<1>3. /\ EvTypeOK'
      /\ \A i \in 1 .. Len(evQ') : evQ'[i] \in Calls
      /\ CanSend => \E i \in 1 .. Len(evQ') : evQ'[i] = Call(get_games_2)
  BY <1>1, <1>2, Sent
<1>4. UNCHANGED <<init, event_thread_working, wpc, event>>
  BY <1>1 DEF event_thread_send
<1>5. Steady /\ break_get_games = 0 /\ then \in {"turn", "relisted", "frame"}
  BY <1>1, GridTypes DEF GridInv, PagesSound, EventsSound
<1>6. TypesSound'
  <2>1. icons' \in [Cells -> Nat \cup {Outside}]
    BY <1>1
  <2>2. raced' \in BOOLEAN /\ stale' \in BOOLEAN
    BY <1>1
  <2>3. GgTypeOK'
    BY <1>1, <1>3, <1>5, <2>1 DEF GridInv, TypesSound, GgTypeOK
  <2>4. listing' = (gui' = "listing")
    BY <1>1, <1>5 DEF GridInv, TypesSound
  <2>5. /\ "hdd" \in plugged'
        /\ shelf' \in [Devices -> SUBSET File] /\ \A d \in Devices : shelf'[d] \subseteq Shelf[d]
        /\ mode_favourites' \in Nat /\ havefavourites' \in BOOLEAN /\ break_get_games' \in {0, 1}
    BY <1>1 DEF GridInv, TypesSound
  <2>6. /\ job' \in [at : {"idle", "cell", "icon", "load"}, fav : BOOLEAN, pass : 0 .. 3, cell : Cells,
                     game : Nat \cup {Outside}]
        /\ then' \in {"turn", "relisted", "frame"} /\ gui' # "exit" /\ inserted' \in BOOLEAN
    BY <1>1, <1>5 DEF GridInv, TypesSound
  <2>7. currentdir' \in Int /\ currentgamedir' \in Int /\ int_currentdir' \in Int /\ Len(directories') <= Capacity
    BY <1>1 DEF GridInv, TypesSound
  <2> QED
    BY <2>2, <2>3, <2>4, <2>5, <2>6, <2>7 DEF TypesSound
<1>7. EventsSound'
  BY <1>1, <1>3, <1>4, <1>5 DEF GridInv, EventsSound
<1>8. PagesSound'
  BY <1>1, <1>5, PagesFrame DEF GridInv
<1>9. FavouritesSound'
  BY <1>1, <1>5, FavouritesFrame DEF GridInv, Relisting, Placing, Emptied
<1>10. MenuSound'
  BY <1>1, <1>5, MenuFrame DEF GridInv, Open, Relisting, Placing
<1>11. WantedSound'
  BY <1>1, <1>5 DEF GridInv, WantedSound, Placing, IdAt, get_currentdir, Selected
<1>12. JobSound'
  BY <1>1, <1>5 DEF GridInv, JobSound, Placing
<1>13. ViewSound'
  <2>1. Norm(int_currentdir)' = Norm(currentdir)'
    BY <1>1 DEF GridInv, ViewSound, Norm, InList
  <2>2. \A c \in Cells : icons'[c] = 0
    BY <1>1
  <2>3. ~raced' => job.at = "idle"
    BY <1>1 DEF GridInv, EventsSound
  <2>4. ~stale' => Coming'
    BY <1>1, <1>3 DEF Coming
  <2> QED
    BY <1>1, <2>1, <2>2, <2>3, <2>4 DEF ViewSound
<1> QED
  BY <1>6, <1>7, <1>8, <1>9, <1>10, <1>11, <1>12, <1>13 DEF GridInv

-----------------------------------------------------------------------------
(* The top of the main loop.                                               *)

LEMMA TurnKept ==
  ASSUME GridInv, NEW scans \in BOOLEAN, Turn(scans)
  PROVE  GridInv'
<1>1. /\ gui = "turn"
      /\ UNCHANGED <<evVars, plugged, shelf, directories, mode_favourites, havefavourites, favourites>>
      /\ UNCHANGED <<select_px, select_py, currentgamedir, menu_screen, icons, int_currentdir, break_get_games>>
      /\ UNCHANGED <<job, then, drawn, raced, stale, chosen, acted, inserted, wanted>>
  BY DEF Turn, GoTo, screen, favs, history
<1>2. break_get_games = 0 /\ wanted = NULL /\ "hdd" \in plugged /\ plugged \subseteq Devices
  BY <1>1 DEF GridInv, EventsSound, WantedSound, Placing, TypesSound, GgTypeOK
<1>3. CASE scans /\ (fdevices # plugged \/ forcedevices # {})
  <2>1. /\ gui' = "listing" /\ listing' = TRUE /\ currentdir' = 0 /\ fdevices' = plugged /\ forcedevices' = {}
    BY <1>3 DEF Turn, GoTo
  <2>2. TypesSound'
    <3>1. EvTypeOK'
      BY <1>1, EvTypeFrame, GridTypes DEF GridInv
    <3>2. GgTypeOK'
      BY <1>1, <1>2, <2>1, <3>1 DEF GridInv, TypesSound, GgTypeOK
    <3>3. listing' = (gui' = "listing")
      BY <2>1
    <3>4. /\ "hdd" \in plugged'
          /\ shelf' \in [Devices -> SUBSET File] /\ \A d \in Devices : shelf'[d] \subseteq Shelf[d]
          /\ mode_favourites' \in Nat /\ havefavourites' \in BOOLEAN /\ break_get_games' \in {0, 1}
      BY <1>1 DEF GridInv, TypesSound
    <3>5. /\ job' \in [at : {"idle", "cell", "icon", "load"}, fav : BOOLEAN, pass : 0 .. 3, cell : Cells,
                       game : Nat \cup {Outside}]
          /\ then' \in {"turn", "relisted", "frame"} /\ gui' # "exit"
          /\ raced' \in BOOLEAN /\ stale' \in BOOLEAN /\ inserted' \in BOOLEAN
      BY <1>1, <2>1 DEF GridInv, TypesSound
    <3>6. currentdir' \in Int /\ currentgamedir' \in Int /\ int_currentdir' \in Int /\ Len(directories') <= Capacity
      BY <1>1, <2>1 DEF GridInv, TypesSound
    <3> QED
      BY <3>2, <3>3, <3>4, <3>5, <3>6 DEF TypesSound
  <2>3. EventsSound'
    BY <1>1, <1>2, EventsFrame DEF GridInv
  <2>4. PagesSound'
    <3>1. directories # <<>> => InList(0)
      BY GridTypes DEF GridInv, InList
    <3> QED
      BY <1>1, <1>2, <2>1, <3>1, Grid DEF GridInv, PagesSound, InList, Steady
  <2>5. FavouritesSound'
    BY <1>1, <2>1 DEF GridInv, FavouritesSound, Relisting
  <2>6. MenuSound'
    BY <1>1, <2>1 DEF GridInv, MenuSound, Open, Relisting, ActsOnTheChosen
  <2>7. WantedSound'
    BY <1>1, <1>2, WantedNone
  <2>8. JobSound'
    BY <1>1, <2>1, JobFrame DEF GridInv, Placing
  <2>9. ViewSound'
    BY <2>1, ViewUnsaid
  <2> QED
    BY <2>2, <2>3, <2>4, <2>5, <2>6, <2>7, <2>8, <2>9 DEF GridInv
<1>4. CASE ~(scans /\ (fdevices # plugged \/ forcedevices # {}))
  <2>1. /\ gui' = "frame" /\ UNCHANGED <<fdevices, forcedevices, listing, currentdir>> /\ Steady
    BY <1>2, <1>4 DEF Turn, GoTo, Steady
  <2>2. TypesSound'
    BY <1>1, <2>1, GridTypes, TypesFrame, EvTypeFrame DEF GridInv
  <2>3. EventsSound'
    BY <1>1, <1>2, EventsFrame DEF GridInv
  <2>4. PagesSound'
    BY <1>1, <2>1 DEF GridInv, PagesSound, InList, Steady
  <2>5. FavouritesSound'
    BY <1>1, <2>1, FavouritesFrame DEF GridInv, Relisting, Placing, Emptied, Steady
  <2>6. MenuSound'
    BY <1>1, <2>1, MenuFrame DEF GridInv, Open, Relisting, Placing
  <2>7. WantedSound'
    BY <1>1, <1>2, WantedNone
  <2>8. JobSound'
    BY <1>1, <2>1, JobFrame DEF GridInv, Placing
  <2>9. ViewSound'
    BY <1>1, <2>1, ViewFrame DEF GridInv, Showing, Steady, Placing
  <2> QED
    BY <2>2, <2>3, <2>4, <2>5, <2>6, <2>7, <2>8, <2>9 DEF GridInv
<1> QED
  BY <1>3, <1>4

LEMMA ListedKept ==
  ASSUME GridInv, Listed
  PROVE  GridInv'
<1>1. /\ gui = "listing" /\ gui' = "favs" /\ directories' = ListOf(fdevices, shelf) /\ listing' = FALSE
      /\ favourites' = [c \in Cells |-> [favourites[c] EXCEPT !.index = -1]]
      /\ UNCHANGED <<evVars, plugged, shelf, fdevices, forcedevices, mode_favourites, havefavourites>>
      /\ UNCHANGED <<currentdir, select_px, select_py, currentgamedir, menu_screen, icons, int_currentdir>>
      /\ UNCHANGED <<break_get_games, job, then, drawn, raced, stale, chosen, acted, inserted, wanted>>
  BY DEF Listed, GoTo, screen, devs, cursor, history
<1>2. directories' \in Seq(Entry) /\ Len(directories') <= Capacity /\ DiscOnTop(directories')
  <2>1. shelf \in [Devices -> SUBSET File] /\ \A d \in Devices : shelf[d] \subseteq Shelf[d]
    BY DEF GridInv, TypesSound
  <2>2. LET l == ListOf(fdevices, shelf) IN l \in Seq(Entry) /\ Len(l) <= Capacity /\ DiscOnTop(l)
    BY <2>1, ListOfIs
  <2> QED
    BY <1>1, <2>2
<1>3. break_get_games = 0 /\ wanted = NULL /\ currentdir = 0 /\ Steady
  BY <1>1 DEF GridInv, EventsSound, WantedSound, Placing, PagesSound
<1>4. /\ favourites' \in Favourites
      /\ \A c \in Cells : favourites'[c].id = favourites[c].id /\ favourites'[c].index = -1
  <2>1. favourites \in Favourites /\ Capacity \in Nat
    BY GridTypes DEF GridInv
  <2>2. \A c \in Cells : favourites'[c] = [id |-> favourites[c].id, index |-> -1] /\ favourites[c].id \in Nat
    BY <1>1, <2>1 DEF Favourites
  <2>3. \A c \in Cells : favourites'[c] \in [id : Nat, index : -1 .. Capacity]
    <3> DEFINE none == -1
               range == -1 .. Capacity
    <3>1. none \in range
      BY <2>1
    <3> HIDE DEF none, range
    <3>2. ASSUME NEW c \in Cells
          PROVE  favourites'[c] \in [id : Nat, index : range]
      <4>1. favourites'[c] = [id |-> favourites[c].id, index |-> none] /\ favourites[c].id \in Nat
        BY <2>2 DEF none
      <4> QED
        BY <3>1, <4>1
    <3> QED
      BY <3>2 DEF range
  <2>4. favourites' = [c \in Cells |-> favourites'[c]]
    BY <1>1
  <2> QED
    BY <2>2, <2>3, <2>4 DEF Favourites
<1>5. TypesSound'
  <2>1. EvTypeOK'
    BY <1>1, EvTypeFrame, GridTypes DEF GridInv
  <2>2. GgTypeOK'
    BY <1>1, <1>2, <1>4, <2>1 DEF GridInv, TypesSound, GgTypeOK, Favourites
  <2>3. listing' = (gui' = "listing")
    BY <1>1
  <2>4. /\ "hdd" \in plugged'
        /\ shelf' \in [Devices -> SUBSET File] /\ \A d \in Devices : shelf'[d] \subseteq Shelf[d]
        /\ mode_favourites' \in Nat /\ havefavourites' \in BOOLEAN /\ break_get_games' \in {0, 1}
    BY <1>1 DEF GridInv, TypesSound
  <2>5. /\ job' \in [at : {"idle", "cell", "icon", "load"}, fav : BOOLEAN, pass : 0 .. 3, cell : Cells,
                     game : Nat \cup {Outside}]
        /\ then' \in {"turn", "relisted", "frame"} /\ gui' # "exit"
        /\ raced' \in BOOLEAN /\ stale' \in BOOLEAN /\ inserted' \in BOOLEAN
    BY <1>1 DEF GridInv, TypesSound
  <2>6. currentdir' \in Int /\ currentgamedir' \in Int /\ int_currentdir' \in Int
    BY <1>1 DEF GridInv, TypesSound
  <2> QED
    BY <1>2, <2>2, <2>3, <2>4, <2>5, <2>6 DEF TypesSound
<1>6. EventsSound'
  BY <1>1, <1>3, EventsFrame DEF GridInv
<1>7. PagesSound'
  <2>1. directories' # <<>> => 0 \in 0 .. Len(directories') - 1
    BY <1>2
  <2> QED
    BY <1>1, <1>2, <1>3, <2>1, Grid DEF PagesSound, InList, Steady
<1>8. FavouritesSound'
  <2>1. \A c, d \in Cells : favourites'[c].id = favourites'[d].id /\ favourites'[c].id # 0 => c = d
    BY <1>4 DEF GridInv, FavouritesSound
  <2>2. \A c \in Cells : ~(favourites'[c].index >= 0)
    BY <1>4
  <2>3. Relisting'
    BY <1>1 DEF Relisting
  <2> QED
    BY <2>1, <2>2, <2>3 DEF FavouritesSound
<1>9. MenuSound'
  BY <1>1 DEF GridInv, MenuSound, Open, Relisting, ActsOnTheChosen
<1>10. WantedSound'
  BY <1>1, <1>3, WantedNone
<1>11. JobSound'
  BY <1>1 DEF GridInv, JobSound
<1>12. ViewSound'
  BY <1>1, ViewUnsaid
<1> QED
  BY <1>5, <1>6, <1>7, <1>8, <1>9, <1>10, <1>11, <1>12 DEF GridInv

LEMMA FavouritesUpdatedKept ==
  ASSUME GridInv, FavouritesUpdated
  PROVE  GridInv'
<1>1. /\ gui = "favs" /\ gui' = "wait" /\ then' = "relisted" /\ break_get_games' = 1
      /\ favourites' = UpdateFavourites(favourites, directories)
      /\ havefavourites' = SomeFavourite(favourites') /\ mode_favourites' \in {mode_favourites, 0}
      /\ UNCHANGED <<evVars, plugged, shelf, fdevices, forcedevices, directories, listing>>
      /\ UNCHANGED <<currentdir, select_px, select_py, currentgamedir, menu_screen, icons, int_currentdir>>
      /\ UNCHANGED <<job, drawn, raced, stale, chosen, acted, inserted, wanted>>
  BY DEF FavouritesUpdated, GetGames, screen, devs, cursor, history, list
<1>2. wanted = NULL /\ Steady /\ listing = FALSE
  BY <1>1 DEF GridInv, WantedSound, Placing, PagesSound, TypesSound
<1>3. ASSUME NEW c \in Cells
      PROVE  /\ favourites'[c] \in [id : Nat, index : -1 .. Capacity]
             /\ favourites'[c].id = favourites[c].id
             /\ favourites'[c].index >= 0 =>
                  /\ favourites'[c].id # 0 /\ InList(favourites'[c].index)
                  /\ IdAt(favourites'[c].index) = favourites'[c].id
  <2>1. /\ favourites \in Favourites /\ directories \in Seq(Entry) /\ Len(directories) <= Capacity
        /\ Len(directories) \in Nat /\ Capacity \in Nat
    BY GridTypes DEF GridInv
  <2> DEFINE p == IndexOfFavourite(favourites[c], directories)
  <2>2. favourites'[c] = [id |-> favourites[c].id, index |-> p] /\ favourites[c].id \in Nat
    BY <1>1, <2>1 DEF UpdateFavourites, Favourites
  <2>3. /\ p \in -1 .. Len(directories) - 1
        /\ p >= 0 => favourites[c].id # 0 /\ directories[p + 1].id = favourites[c].id
    BY <2>1, FavouriteFound
  <2> HIDE DEF p
  <2>4. p \in -1 .. Capacity /\ p \in Int
    BY <2>1, <2>3
  <2>5. p >= 0 => p \in 0 .. Len(directories) - 1
    BY <2>1, <2>3
  <2> QED
    BY <2>2, <2>3, <2>4, <2>5 DEF InList, IdAt
<1>4. favourites' \in Favourites
  <2>1. favourites' = [c \in Cells |-> favourites'[c]]
    BY <1>1, GridTypes DEF GridInv, UpdateFavourites, Favourites
  <2> QED
    BY <1>3, <2>1 DEF Favourites
<1>5. mode_favourites' \in Modes /\ havefavourites' \in BOOLEAN
  BY <1>1, GridTypes DEF GridInv, Modes, SomeFavourite
<1>6. TypesSound'
  BY <1>1, <1>4, <1>5, GridTypes, TypesFrame, EvTypeFrame DEF GridInv
<1>7. EventsSound'
  BY <1>1, EventsFrame DEF GridInv
<1>8. PagesSound'
  BY <1>1, PagesFrame DEF GridInv
<1>9. FavouritesSound'
  <2>1. \A n : InList(n)' = InList(n) /\ IdAt(n)' = IdAt(n)
    BY <1>1 DEF InList, IdAt
  <2>2. Relisting'
    BY <1>1 DEF Relisting, Placing
  <2>3. \A c, d \in Cells : favourites'[c].id = favourites'[d].id /\ favourites'[c].id # 0 => c = d
    BY <1>3 DEF GridInv, FavouritesSound
  <2> QED
    BY <1>3, <2>1, <2>2, <2>3 DEF FavouritesSound
<1>10. MenuSound'
  BY <1>1 DEF GridInv, MenuSound, Open, Relisting, Placing, ActsOnTheChosen
<1>11. WantedSound'
  BY <1>1, <1>2, WantedNone
<1>12. JobSound' /\ ViewSound'
  BY <1>1, JobUnsaid, ViewUnsaid DEF Placing
<1> QED
  BY <1>6, <1>7, <1>8, <1>9, <1>10, <1>11, <1>12 DEF GridInv

LEMMA FrameKept ==
  ASSUME GridInv, Frame
  PROVE  GridInv'
<1>1. /\ gui = "frame" /\ gui' = IF Paranoid THEN "exit" ELSE "flip"
      /\ currentdir' = (IF InList(currentdir) THEN currentdir ELSE 0)
      /\ currentgamedir' = (IF InList(currentgamedir) THEN currentgamedir ELSE 0)
      /\ drawn' = [screen |-> menu_screen, cell |-> Selected] /\ wanted' = NULL
      /\ UNCHANGED <<evVars, plugged, shelf, fdevices, forcedevices, directories, listing, mode_favourites>>
      /\ UNCHANGED <<havefavourites, favourites, select_px, select_py, menu_screen, icons, int_currentdir>>
      /\ UNCHANGED <<break_get_games, job, then, raced, stale, chosen, acted, inserted>>
  BY DEF Frame, GoTo, screen, devs, list, favs
<1>2. /\ break_get_games = 0 /\ Steady /\ ~Emptied /\ ~Relisting /\ listing = FALSE /\ Selected \in Cells
      /\ menu_screen \in {0, 1, 2}
      /\ directories # <<>> => InList(currentdir)
  BY <1>1, SelectedCell, GridTypes
  DEF GridInv, EventsSound, PagesSound, Emptied, Relisting, Placing, TypesSound
<1>3. ~Paranoid
  <2>1. \A c \in Cells : favourites[c].index >= 0 => favourites[c].id # 0 /\ InList(favourites[c].index)
    BY <1>1, <1>2 DEF GridInv, FavouritesSound
  <2>2. mode_favourites # 0 => \A c \in Cells : icons[c] # 0 => favourites[c].index >= 0
    BY <1>1 DEF GridInv, JobSound, Placing
  <2>3. \A c \in Cells : favourites[c].index \in Int
    BY GridTypes DEF GridInv, Favourites
  <2> QED
    BY <2>1, <2>2, <2>3 DEF Paranoid
<1>4. gui' = "flip"
  BY <1>1, <1>3
<1>5. mode_favourites = 0 => currentdir' = currentdir \/ directories = <<>>
  BY <1>1, <1>2
<1>6. TypesSound'
  <2>1. EvTypeOK'
    BY <1>1, EvTypeFrame, GridTypes DEF GridInv
  <2>2. drawn' \in [screen : {0, 1, 2}, cell : Cells]
    BY <1>1, <1>2
  <2>3. GgTypeOK'
    BY <1>1, <1>4, <2>1, <2>2 DEF GridInv, TypesSound, GgTypeOK
  <2>4. listing' = (gui' = "listing")
    BY <1>1, <1>2, <1>4
  <2>5. /\ "hdd" \in plugged'
        /\ shelf' \in [Devices -> SUBSET File] /\ \A d \in Devices : shelf'[d] \subseteq Shelf[d]
        /\ mode_favourites' \in Nat /\ havefavourites' \in BOOLEAN /\ break_get_games' \in {0, 1}
    BY <1>1 DEF GridInv, TypesSound
  <2>6. /\ job' \in [at : {"idle", "cell", "icon", "load"}, fav : BOOLEAN, pass : 0 .. 3, cell : Cells,
                     game : Nat \cup {Outside}]
        /\ then' \in {"turn", "relisted", "frame"} /\ gui' # "exit"
        /\ raced' \in BOOLEAN /\ stale' \in BOOLEAN /\ inserted' \in BOOLEAN
    BY <1>1, <1>4 DEF GridInv, TypesSound
  <2>7. currentdir' \in Int /\ currentgamedir' \in Int /\ int_currentdir' \in Int /\ Len(directories') <= Capacity
    BY <1>1 DEF GridInv, TypesSound
  <2> QED
    BY <2>3, <2>4, <2>5, <2>6, <2>7 DEF TypesSound
<1>7. EventsSound'
  BY <1>1, <1>2, EventsFrame DEF GridInv
<1>8. PagesSound'
  BY <1>1, <1>2, <1>4, Grid DEF GridInv, PagesSound, InList, Steady
<1>9. FavouritesSound'
  BY <1>1, <1>2, <1>4, FavouritesFrame DEF GridInv
<1>10. MenuSound'
  <2>1. CASE menu_screen # 0
    <3>1. Open
      BY <1>2, <2>1 DEF Open
    <3>2. /\ InList(currentgamedir)
          /\ mode_favourites = 0 => currentgamedir = currentdir + Selected
          /\ ~inserted => chosen = TheGame
      BY <3>1 DEF GridInv, MenuSound
    <3>3. InList(currentdir)
      BY <1>2, <3>2 DEF InList
    <3>4. UNCHANGED <<currentdir, currentgamedir>>
      BY <1>1, <3>2, <3>3
    <3>5. InList(currentgamedir)' /\ TheGame' = TheGame /\ Selected' = Selected
      BY <1>1, <3>2, <3>4 DEF InList, TheGame, Selected
    <3> QED
      BY <1>1, <1>4, <3>2, <3>4, <3>5 DEF GridInv, MenuSound, ActsOnTheChosen
  <2>2. CASE menu_screen = 0
    BY <1>1, <1>4, <2>2 DEF GridInv, MenuSound, Open, ActsOnTheChosen
  <2> QED
    BY <2>1, <2>2
<1>11. WantedSound'
  BY <1>1, WantedNone
<1>12. JobSound'
  BY <1>1, <1>4, JobFrame DEF GridInv, Placing
<1>13. ViewSound'
  BY <1>1, <1>2, <1>4, <1>5, ViewFrame DEF GridInv, Showing, Placing, Steady
<1> QED
  BY <1>6, <1>7, <1>8, <1>9, <1>10, <1>11, <1>12, <1>13 DEF GridInv

\* locate_last_game puts the cursor on the last game if it is in the list.
LEMMA Located ==
  ASSUME GridInv, gui = "relisted", locate_last_game,
         wanted' = IF last_game # NULL /\ SameGame(directories, last_game) # {} THEN last_game ELSE NULL,
         UNCHANGED <<directories, favourites>>
  PROVE  /\ currentdir' \in Pages /\ currentdir' \in Int /\ currentgamedir' \in Int
         /\ directories # <<>> => InList(currentdir')
         /\ select_px' \in 0 .. W - 1 /\ select_py' \in 0 .. H - 1
         /\ mode_favourites' \in {0, 1}
         /\ wanted' # NULL => IdAt(get_currentdir(Selected))' = wanted'.id
         /\ \/ gui' = "wait" /\ then' = "frame" /\ break_get_games' = 1
            \/ /\ gui' = "frame" /\ UNCHANGED <<break_get_games, then>>
               /\ (mode_favourites' = 0) = (mode_favourites = 0)
               /\ mode_favourites = 0 => currentdir' = currentdir
<1>1. /\ currentdir \in Pages /\ currentdir \in Int /\ currentgamedir \in Int /\ mode_favourites \in Nat
      /\ directories # <<>> => InList(currentdir)
      /\ select_px \in 0 .. W - 1 /\ select_py \in 0 .. H - 1
      /\ directories \in Seq(Entry) /\ Len(directories) \in Nat /\ favourites \in Favourites /\ Capacity \in Nat
  BY GridTypes DEF GridInv, PagesSound, TypesSound
<1> DEFINE last == LastGamePosition(directories, last_game)
<1>2. /\ last \in -1 .. Len(directories) - 1
      /\ last >= 0 => directories[last + 1].id = last_game.id
      /\ last = -1 <=> SameGame(directories, last_game) = {}
  BY <1>1, LastGameFound
<1>3. directories = <<>> => SameGame(directories, last_game) = {}
  BY DEF SameGame
<1> HIDE DEF last
<1>4. CASE NotLocated /\ (last_game = NULL \/ directories = <<>> \/ last < 0)
  <2>1. wanted' = NULL
    <3>1. last < 0 => last = -1
      BY <1>1, <1>2
    <3> QED
      BY <1>2, <1>3, <1>4, <3>1
  <2>2. /\ UNCHANGED <<currentdir, select_px, select_py, currentgamedir, break_get_games, then>>
        /\ gui' = "frame" /\ mode_favourites' = (IF mode_favourites # 0 THEN 1 ELSE 0)
    BY <1>4 DEF NotLocated, GoTo, cursor
  <2>3. mode_favourites' \in {0, 1} /\ (mode_favourites' = 0) = (mode_favourites = 0)
    BY <2>2
  <2> QED
    BY <1>1, <2>1, <2>2, <2>3
<1>5. CASE mode_favourites # 0 /\ directories # <<>> /\ \E c \in FavouriteCells : LocateAmongFavourites(c)
  <2>1. PICK c \in FavouriteCells : LocateAmongFavourites(c)
    BY <1>5
  <2>2. /\ c \in Cells /\ InList(favourites[c].index) /\ IdAt(favourites[c].index) = last_game.id
        /\ favourites[c].index \in Int
    BY <1>1 DEF FavouriteCells, InList
  <2>3. /\ currentdir' = 0 /\ select_px' = c % W /\ select_py' = c \div W
        /\ currentgamedir' = favourites[c].index /\ mode_favourites' = 1 /\ gui' = "frame"
        /\ UNCHANGED <<break_get_games, then>>
    BY <2>1 DEF LocateAmongFavourites, CursorAt, GoTo
  <2>4. select_px' \in 0 .. W - 1 /\ select_py' \in 0 .. H - 1 /\ Selected' = c
    BY <2>2, <2>3, CellSplit DEF Selected
  <2>5. get_currentdir(Selected)' = favourites[c].index
    BY <2>3, <2>4 DEF get_currentdir
  <2>6. IdAt(get_currentdir(Selected))' = last_game.id
    BY <2>2, <2>5 DEF IdAt
  <2>7. InList(0)
    BY <2>2, <1>1 DEF InList
  <2>8. wanted' # NULL => IdAt(get_currentdir(Selected))' = wanted'.id
    BY <2>6
  <2>9. 0 \in Pages /\ 0 \in Int /\ (mode_favourites' = 0) = (mode_favourites = 0)
    BY <1>5, <2>3, Grid
  <2> QED
    BY <1>5, <2>2, <2>3, <2>4, <2>7, <2>8, <2>9
<1>6. CASE last >= 0 /\ directories # <<>> /\ LocateInList(last)
  <2>1. last \in 0 .. Len(directories) - 1 /\ last \in Nat
    BY <1>1, <1>2, <1>6
  <2> DEFINE page == (last \div G) * G
             cell == last % G
  <2>2. page \in Pages /\ page \in 0 .. last /\ cell \in Cells /\ page + cell = last
    BY <2>1, PageOf
  <2>3. /\ currentdir' = page /\ select_px' = cell % W /\ select_py' = cell \div W
        /\ currentgamedir' = last /\ mode_favourites' = 0 /\ gui' = "wait" /\ then' = "frame" /\ break_get_games' = 1
    BY <1>6 DEF LocateInList, CursorAt, GetGames
  <2> HIDE DEF page, cell
  <2>4. select_px' \in 0 .. W - 1 /\ select_py' \in 0 .. H - 1 /\ Selected' = cell
    BY <2>2, <2>3, CellSplit DEF Selected
  <2>5. get_currentdir(Selected)' = last
    BY <2>2, <2>3, <2>4 DEF get_currentdir
  <2>6. IdAt(get_currentdir(Selected))' = last_game.id
    BY <1>2, <2>1, <2>5 DEF IdAt
  <2>7. InList(page) /\ page \in Int /\ last \in Int
    BY <1>1, <2>1, <2>2 DEF InList
  <2>8. wanted' # NULL => IdAt(get_currentdir(Selected))' = wanted'.id
    BY <2>6
  <2> QED
    BY <2>2, <2>3, <2>4, <2>7, <2>8
<1> QED
  <2>1. last \in Int
    BY <1>1, <1>2
  <2>2. CASE last_game = NULL \/ directories = <<>>
    BY <1>4, <2>2 DEF locate_last_game
  <2>3. CASE last_game # NULL /\ directories # <<>>
    <3>1. \/ mode_favourites # 0 /\ \E c \in FavouriteCells : LocateAmongFavourites(c)
          \/ last >= 0 /\ LocateInList(last)
          \/ ~(last >= 0) /\ NotLocated
      BY <2>3 DEF locate_last_game, last
    <3>2. ~(last >= 0) => last < 0
      BY <2>1
    <3> QED
      BY <1>4, <1>5, <1>6, <2>3, <3>1, <3>2
  <2> QED
    BY <2>2, <2>3

LEMMA RelistedKept ==
  ASSUME GridInv, Relisted
  PROVE  GridInv'
<1>1. /\ gui = "relisted" /\ locate_last_game /\ menu_screen' = 0
      /\ wanted' = IF last_game # NULL /\ SameGame(directories, last_game) # {} THEN last_game ELSE NULL
      /\ UNCHANGED <<evVars, plugged, shelf, fdevices, forcedevices, directories, listing>>
      /\ UNCHANGED <<havefavourites, favourites, icons, int_currentdir, job, drawn>>
      /\ UNCHANGED <<raced, stale, chosen, acted, inserted>>
  BY DEF Relisted, devs, list
<1>2. /\ currentdir' \in Pages /\ currentdir' \in Int /\ currentgamedir' \in Int
      /\ directories # <<>> => InList(currentdir')
      /\ select_px' \in 0 .. W - 1 /\ select_py' \in 0 .. H - 1
      /\ mode_favourites' \in {0, 1}
      /\ wanted' # NULL => IdAt(get_currentdir(Selected))' = wanted'.id
      /\ \/ gui' = "wait" /\ then' = "frame" /\ break_get_games' = 1
         \/ /\ gui' = "frame" /\ UNCHANGED <<break_get_games, then>>
            /\ (mode_favourites' = 0) = (mode_favourites = 0)
            /\ mode_favourites = 0 => currentdir' = currentdir
  BY <1>1, Located
<1>3. mode_favourites' \in Modes /\ ~Waits(mode_favourites')
  BY <1>2, ModesAre DEF Waits, Modes
<1>4. Steady /\ break_get_games = 0
  BY <1>1 DEF GridInv, PagesSound, EventsSound
<1>5. TypesSound'
  BY <1>1, <1>2, <1>3, GridTypes, TypesFrame, EvTypeFrame DEF GridInv
<1>6. EventsSound'
  BY <1>1, <1>2, <1>4, EventsFrame DEF GridInv
<1>7. PagesSound'
  BY <1>1, <1>2, <1>4 DEF GridInv, PagesSound, InList, Steady
<1>8. FavouritesSound'
  <2>1. \A n : InList(n)' = InList(n) /\ IdAt(n)' = IdAt(n)
    BY <1>1 DEF InList, IdAt
  <2> QED
    BY <1>1, <1>3, <2>1 DEF GridInv, FavouritesSound, Emptied
<1>9. MenuSound'
  BY <1>1, <1>2 DEF GridInv, MenuSound, Open, ActsOnTheChosen
<1>10. WantedSound'
  BY <1>2 DEF WantedSound, Placing
<1>11. JobSound'
  BY <1>1, <1>2, JobFrame, JobUnsaid DEF GridInv, Placing
<1>12. ViewSound'
  <2>1. CASE gui' = "wait"
    BY <2>1, ViewUnsaid DEF Placing
  <2>2. CASE gui' = "frame" /\ (mode_favourites' = 0) = (mode_favourites = 0)
             /\ (mode_favourites = 0 => currentdir' = currentdir)
    BY <1>1, <1>4, <2>2, ViewFrame DEF GridInv, Showing, Steady, Placing
  <2> QED
    BY <1>2, <2>1, <2>2
<1> QED
  BY <1>5, <1>6, <1>7, <1>8, <1>9, <1>10, <1>11, <1>12 DEF GridInv

-----------------------------------------------------------------------------
(* The worker.                                                             *)

WorkerRest ==
  UNCHANGED <<devs, list, cursor, screen, favs, last_game, gui, then, drawn, inputs, history, break_get_games>>
Job == [at : {"idle", "cell", "icon", "load"}, fav : BOOLEAN, pass : 0 .. 3, cell : Cells, game : Nat \cup {Outside}]

LEMMA WorkerFrame ==
  ASSUME GridInv, WorkerRest
  PROVE  /\ PagesSound' /\ FavouritesSound' /\ MenuSound' /\ WantedSound'
         /\ \A n : InList(n)' = InList(n) /\ IdAt(n)' = IdAt(n) /\ Norm(n)' = Norm(n)
         /\ \A c : get_currentdir(c)' = get_currentdir(c)
         /\ \A c : PictureOf(c)' = PictureOf(c)
         /\ \A c : HasPicture(c)' = HasPicture(c)
         /\ \A c : EntryOf(c)' = EntryOf(c)
         /\ Norm(currentdir)' = Norm(currentdir)
         /\ UNCHANGED <<mode_favourites, currentdir, favourites, directories, listing, gui, raced, stale,
                        break_get_games, fdevices, forcedevices>>
<1>1. /\ UNCHANGED <<plugged, shelf, fdevices, forcedevices, directories, listing, currentdir, select_px>>
      /\ UNCHANGED <<select_py, currentgamedir, menu_screen, mode_favourites, havefavourites, favourites>>
      /\ UNCHANGED <<gui, then, drawn, raced, stale, chosen, acted, inserted, wanted, break_get_games>>
  BY DEF WorkerRest, devs, list, cursor, screen, favs, history
<1>2. PagesSound'
  BY <1>1 DEF GridInv, PagesSound, InList, Steady
<1>3. FavouritesSound'
  BY <1>1 DEF GridInv, FavouritesSound, InList, IdAt, Relisting, Emptied
<1>4. MenuSound'
  BY <1>1 DEF GridInv, MenuSound, InList, TheGame, Selected, ActsOnTheChosen, Open, Relisting
<1>5. WantedSound'
  BY <1>1 DEF GridInv, WantedSound, IdAt, get_currentdir, Selected
<1>6. \A n : InList(n)' = InList(n) /\ IdAt(n)' = IdAt(n) /\ Norm(n)' = Norm(n)
  BY <1>1 DEF InList, IdAt, Norm
<1>7. \A c : get_currentdir(c)' = get_currentdir(c)
  BY <1>1 DEF get_currentdir
<1>8. \A c : PictureOf(c)' = PictureOf(c)
  BY <1>1 DEF PictureOf, InList, IdAt, get_currentdir
<1>9. \A c : HasPicture(c)' = HasPicture(c)
  BY <1>1 DEF HasPicture, InList, get_currentdir
<1>10. \A c : EntryOf(c)' = EntryOf(c)
  BY <1>1 DEF EntryOf, get_currentdir
<1>11. Norm(currentdir)' = Norm(currentdir)
  BY <1>1 DEF Norm, InList
<1> QED
  BY <1>1, <1>2, <1>3, <1>4, <1>5, <1>6, <1>7, <1>8, <1>9, <1>10, <1>11

LEMMA WorkerTypes ==
  ASSUME GridInv, WorkerRest, EvTypeOK', icons' \in [Cells -> Nat \cup {Outside}], int_currentdir' \in Int,
         job' \in Job
  PROVE  TypesSound'
<1>1. /\ UNCHANGED <<plugged, shelf, fdevices, forcedevices, directories, listing, currentdir, select_px>>
      /\ UNCHANGED <<select_py, currentgamedir, menu_screen, mode_favourites, havefavourites, favourites>>
      /\ UNCHANGED <<gui, then, drawn, raced, stale, inserted, break_get_games>>
  BY DEF WorkerRest, devs, list, cursor, screen, favs, history
<1>2. G \in Nat /\ \A c \in Cells : c \in 0 .. G
  BY Grid DEF Cells
<1>3. /\ job'.at \in {"idle", "cell", "icon", "load"} /\ job'.cell \in 0 .. G /\ job'.pass \in 0 .. 3
  BY <1>2 DEF Job
<1>4. GgTypeOK'
  BY <1>1, <1>3 DEF GridInv, TypesSound, GgTypeOK
<1>5. listing' = (gui' = "listing")
  BY <1>1 DEF GridInv, TypesSound
<1>6. /\ "hdd" \in plugged'
      /\ shelf' \in [Devices -> SUBSET File] /\ \A d \in Devices : shelf'[d] \subseteq Shelf[d]
      /\ mode_favourites' \in Nat /\ havefavourites' \in BOOLEAN /\ break_get_games' \in {0, 1}
  BY <1>1 DEF GridInv, TypesSound
<1>7. /\ then' \in {"turn", "relisted", "frame"} /\ gui' # "exit"
      /\ raced' \in BOOLEAN /\ stale' \in BOOLEAN /\ inserted' \in BOOLEAN
  BY <1>1 DEF GridInv, TypesSound
<1>8. currentdir' \in Int /\ currentgamedir' \in Int /\ Len(directories') <= Capacity
  BY <1>1 DEF GridInv, TypesSound
<1> QED
  BY <1>4, <1>5, <1>6, <1>7, <1>8 DEF TypesSound, Job

LEMMA WorkerHas ==
  ASSUME GridInv
  PROVE  /\ EvTypeOK /\ icons \in [Cells -> Nat \cup {Outside}] /\ int_currentdir \in Int /\ job \in Job
         /\ job.fav \in BOOLEAN /\ job.pass \in 0 .. 3 /\ job.cell \in Cells
BY DEF GridInv, TypesSound, GgTypeOK, Job

\* Taking the next event, beginning with it and being done with it.
LEMMA HandlingKept ==
  ASSUME GridInv, Receive \/ Dispatch \/ Clear, UNCHANGED loader, WorkerRest
  PROVE  GridInv'
<1>1. UNCHANGED <<icons, int_currentdir, job, init>>
  BY DEF loader, Receive, Dispatch, Clear
<1> DEFINE q == evQ
<1>2. q \in Seq(Event) /\ Len(q) \in Nat /\ Len(q) <= QueueSize /\ \A i \in 1 .. Len(q) : q[i] \in Calls
  BY DEF GridInv, TypesSound, GgTypeOK, EvTypeOK, EventsSound
<1>3. /\ EvTypeOK' /\ EventsSound' /\ (Coming => Coming')
  <2>1. CASE Receive
    <3>1. wpc = "receive" /\ q # <<>> /\ event' = Head(q) /\ evQ' = Tail(q)
          /\ UNCHANGED event_thread_working
      BY <2>1 DEF Receive
    <3> HIDE DEF q
    <3>2. Head(q) = q[1] /\ 1 \in 1 .. Len(q) /\ Tail(q) \in Seq(Event) /\ Len(Tail(q)) = Len(q) - 1
          /\ \A i \in 1 .. Len(q) - 1 : Tail(q)[i] = q[i + 1]
      BY <1>2, <3>1
    <3>3. Head(q) \in Calls /\ Head(q) \in Event /\ Head(q).code # "exit"
      BY <1>2, <3>2, CallsAreEvents
    <3>4. wpc' = "dispatch"
      BY <2>1, <3>3 DEF Receive, q
    <3>5. \A i \in 1 .. Len(Tail(q)) : Tail(q)[i] \in Calls
      BY <1>2, <3>2
    <3>6. job.at = "idle" /\ event_thread_working # 1
      BY <3>1 DEF GridInv, EventsSound
    <3>7. Len(Tail(q)) <= QueueSize
      BY <1>2, <3>2, QueueSizeAssumption
    <3>8. EvTypeOK'
      BY <1>1, <3>1, <3>2, <3>3, <3>4, <3>7 DEF GridInv, TypesSound, GgTypeOK, EvTypeOK, WorkerPlaces
    <3>9. EventsSound'
      BY <1>1, <3>1, <3>3, <3>4, <3>5, <3>6, WorkerFrame DEF GridInv, EventsSound
    <3>10. ASSUME NEW i \in 1 .. Len(q), q[i] = Call(get_games_2)
           PROVE  Coming'
      <4>1. CASE i = 1
        BY <3>1, <3>2, <3>4, <3>10, <4>1 DEF Coming, Call
      <4>2. CASE i # 1
        <5>1. i - 1 \in 1 .. Len(Tail(q)) /\ Tail(q)[i - 1] = q[i]
          BY <1>2, <3>2, <4>2
        <5> QED
          BY <3>1, <3>10, <5>1 DEF Coming
      <4> QED
        BY <4>1, <4>2
    <3>11. Coming => Coming'
      BY <3>1, <3>10 DEF Coming, q
    <3> QED
      BY <3>8, <3>9, <3>11
  <2>2. CASE Dispatch
    <3>1. wpc = "dispatch" /\ UNCHANGED <<evQ, event>> /\ event_thread_working' = 1 /\ event \in Calls
      BY <2>2 DEF Dispatch, GridInv, EventsSound
    <3>2. wpc' = "run"
      BY <2>2, <3>1, CallsAreEvents DEF Dispatch
    <3>3. EvTypeOK'
      BY <1>1, <3>1, <3>2 DEF GridInv, TypesSound, GgTypeOK, EvTypeOK, WorkerPlaces
    <3>4. EventsSound'
      BY <1>1, <3>1, <3>2, WorkerFrame DEF GridInv, EventsSound
    <3>5. Coming => Coming'
      BY <3>1, <3>2 DEF Coming
    <3> QED
      BY <3>3, <3>4, <3>5
  <2>3. CASE Clear
    <3>1. wpc = "clear" /\ UNCHANGED <<evQ, event>> /\ event_thread_working' = 0 /\ wpc' = "receive"
      BY <2>3 DEF Clear
    <3>2. EvTypeOK'
      BY <1>1, <3>1 DEF GridInv, TypesSound, GgTypeOK, EvTypeOK, WorkerPlaces
    <3>3. EventsSound'
      BY <1>1, <3>1, WorkerFrame DEF GridInv, EventsSound
    <3>4. Coming => Coming'
      BY <3>1 DEF Coming
    <3> QED
      BY <3>2, <3>3, <3>4
  <2> QED
    BY <2>1, <2>2, <2>3
<1>4. TypesSound'
  BY <1>1, <1>3, WorkerHas, WorkerTypes
<1>5. JobSound'
  BY <1>1, WorkerFrame DEF GridInv, JobSound
<1>6. ViewSound'
  <2>1. \A c : (Shows(c)' = Shows(c)) /\ (Passed(c)' = Passed(c))
    BY <1>1, WorkerFrame DEF Shows, Passed
  <2>2. Norm(int_currentdir)' = Norm(int_currentdir)
    BY <1>1, WorkerFrame DEF Norm, InList
  <2>3. JobShows' = JobShows
    BY <1>1, <2>1, WorkerFrame DEF JobShows
  <2>4. Showing' = Showing
    BY WorkerFrame DEF Showing, Steady
  <2> QED
    BY <1>1, <1>3, <2>1, <2>2, <2>3, <2>4, WorkerFrame DEF GridInv, ViewSound
<1> QED
  BY <1>3, <1>4, <1>5, <1>6, WorkerFrame DEF GridInv

\* A loader that shows what the grid does looks where the grid looks.
LEMMA LoaderLooks ==
  ASSUME GridInv, JobShows
  PROVE  /\ CellIsEmpty <=> ~HasPicture(job.cell)
         /\ HasPicture(job.cell) => CellEntry = get_currentdir(job.cell)
<1>1. CASE mode_favourites # 0
  BY <1>1 DEF JobShows, CellIsEmpty, CellEntry, HasPicture, get_currentdir
<1>2. CASE mode_favourites = 0 /\ directories = <<>>
  <2>1. \A n : ~InList(n)
    BY <1>2 DEF InList
  <2> QED
    BY <2>1 DEF CellIsEmpty, HasPicture
<1>3. CASE mode_favourites = 0 /\ directories # <<>>
  <2>1. int_currentdir = currentdir
    BY <1>3 DEF GridInv, PagesSound, JobShows, Norm
  <2> QED
    BY <1>3, <2>1 DEF JobShows, CellIsEmpty, CellEntry, HasPicture, get_currentdir
<1> QED
  BY <1>1, <1>2, <1>3

LEMMA Passes3 == \A e : PassOf(e) \in 0 .. 2
BY DEF PassOf

\* The next cell is one further in the pass, or the first of the next pass.
LEMMA NextCellIs ==
  ASSUME GridInv, job.pass < 3, NextCell
  PROVE  /\ job' \in Job /\ job'.at = "cell" /\ job'.fav = job.fav
         /\ \A p \in 0 .. 2, c \in Cells : (p < job'.pass \/ (p = job'.pass /\ c < job'.cell)) =>
              (p < job.pass \/ (p = job.pass /\ c < job.cell)) \/ (p = job.pass /\ c = job.cell)
<1>1. /\ job \in Job /\ job.pass \in 0 .. 2 /\ job.cell \in 0 .. G - 1 /\ G \in Nat /\ G > 0
      /\ job.fav \in BOOLEAN /\ job.game \in Nat \cup {Outside}
  BY WorkerHas, Grid DEF Job, Cells
<1>2. CASE job.cell < G - 1
  <2>1. job' = [job EXCEPT !.at = "cell", !.cell = job.cell + 1] /\ job.cell + 1 \in 0 .. G - 1
    BY <1>1, <1>2 DEF NextCell
  <2>2. job' \in Job /\ job'.at = "cell" /\ job'.fav = job.fav /\ job'.pass = job.pass /\ job'.cell = job.cell + 1
    BY <1>1, <2>1 DEF Job, Cells
  <2> QED
    BY <1>1, <2>2 DEF Cells
<1>3. CASE ~(job.cell < G - 1)
  <2>1. job' = [job EXCEPT !.at = "cell", !.pass = job.pass + 1, !.cell = 0] /\ job.pass + 1 \in 0 .. 3
        /\ 0 \in 0 .. G - 1 /\ job.cell = G - 1
    BY <1>1, <1>3 DEF NextCell
  <2>2. job' \in Job /\ job'.at = "cell" /\ job'.fav = job.fav /\ job'.pass = job.pass + 1 /\ job'.cell = 0
    BY <1>1, <2>1 DEF Job, Cells
  <2> QED
    BY <1>1, <2>1, <2>2 DEF Cells
<1> QED
  BY <1>2, <1>3

LEMMA StartLoaderKept ==
  ASSUME GridInv, StartLoader, WorkerRest
  PROVE  GridInv'
<1>1. /\ wpc = "run" /\ event.func = get_games_2 /\ job.at = "idle"
      /\ int_currentdir' = Norm(int_currentdir)
      /\ job' = [at |-> "cell", fav |-> (mode_favourites # 0), pass |-> 0, cell |-> 0, game |-> 0]
      /\ UNCHANGED <<evVars, icons>>
  BY DEF StartLoader, Norm, NotLoading
<1>2. UNCHANGED <<evQ, wpc, event, event_thread_working>>
  BY <1>1 DEF evVars
<1>3. job' \in Job /\ job'.at = "cell" /\ job'.fav = (mode_favourites # 0) /\ job'.pass = 0 /\ job'.cell = 0
  BY <1>1, Grid DEF Job
<1>4. TypesSound'
  <2>1. int_currentdir' \in Int
    BY <1>1, WorkerHas DEF Norm
  <2> QED
    BY <1>1, <1>3, <2>1, WorkerHas, WorkerTypes, EvTypeFrame
<1>5. EventsSound'
  BY <1>1, <1>2, <1>3, WorkerFrame DEF GridInv, EventsSound
<1>6. JobSound'
  BY <1>1, <1>3, WorkerFrame DEF GridInv, JobSound
<1>7. ViewSound'
  <2>1. Norm(int_currentdir)' = Norm(int_currentdir)
    <3>1. Norm(Norm(int_currentdir)) = Norm(int_currentdir)
      BY DEF Norm
    <3>2. Norm(int_currentdir)' = Norm(int_currentdir')
      BY WorkerFrame DEF Norm, InList
    <3> QED
      BY <1>1, <3>1, <3>2
  <2>2. \A c : Shows(c)' = Shows(c)
    BY <1>1, WorkerFrame DEF Shows
  <2>3. Coming' = Coming /\ Showing' = Showing
    BY <1>2, WorkerFrame DEF Coming, Showing, Steady
  <2>4. ASSUME Showing, ~raced, ~stale
        PROVE  JobShows'
    <3>1. /\ \A c \in Cells : icons[c] = 0 \/ Shows(c)
          /\ mode_favourites = 0 => Norm(int_currentdir) = Norm(currentdir)
      BY <2>4 DEF GridInv, ViewSound
    <3>2. \A c \in Cells : ~Passed(c)'
      <4>1. \A c \in Cells : ~(c < 0)
        BY Grid DEF Cells
      <4> QED
        BY <1>3, <4>1, Passes3 DEF Passed
    <3>3. \A c \in Cells : ~HasPicture(c) => PictureOf(c) = 0
      BY DEF HasPicture, PictureOf
    <3>4. \A c \in Cells : (HasPicture(c) => Passed(c))' => Shows(c)'
      BY <2>2, <3>1, <3>2, <3>3, WorkerFrame DEF Shows
    <3>5. mode_favourites' = 0 => int_currentdir' = Norm(currentdir)'
      BY <1>1, <3>1, WorkerFrame
    <3> QED
      BY <1>3, <3>4, <3>5, WorkerFrame DEF JobShows
  <2> QED
    BY <1>1, <2>1, <2>2, <2>3, <2>4, WorkerFrame DEF GridInv, ViewSound
<1> QED
  BY <1>4, <1>5, <1>6, <1>7, WorkerFrame DEF GridInv

\* get_games_2 returns after its third pass, or when it is told to.
LEMMA LoaderEndsKept ==
  ASSUME GridInv, LoaderEnds, WorkerRest
  PROVE  GridInv'
<1>1. /\ wpc = "run" /\ wpc' = "clear" /\ job.at = "cell" /\ (job.pass = 3 \/ break_get_games = 1)
      /\ job' = NotLoading /\ UNCHANGED <<init, evQ, event_thread_working, event, icons, int_currentdir>>
  BY DEF LoaderEnds, Return_get_games, Return
<1>2. job' \in Job /\ job'.at = "idle"
  BY <1>1, Grid DEF Job, NotLoading
<1>3. TypesSound'
  <2>1. EvTypeOK'
    BY <1>1, WorkerHas DEF EvTypeOK, WorkerPlaces
  <2> QED
    BY <1>1, <1>2, <2>1, WorkerHas, WorkerTypes
<1>4. EventsSound'
  BY <1>1, <1>2, WorkerFrame DEF GridInv, EventsSound
<1>5. JobSound'
  BY <1>1, <1>2, WorkerFrame DEF GridInv, JobSound
<1>6. ViewSound'
  <2>1. Norm(int_currentdir)' = Norm(int_currentdir)
    BY <1>1, WorkerFrame DEF Norm, InList
  <2>2. \A c : Shows(c)' = Shows(c)
    BY <1>1, WorkerFrame DEF Shows
  <2>3. Showing' = Showing
    BY WorkerFrame DEF Showing, Steady
  <2>4. ASSUME Showing, ~raced, ~stale
        PROVE  \A c \in Cells : Shows(c)
    <3>1. break_get_games = 0
      BY <2>4 DEF GridInv, EventsSound, Showing, Placing
    <3>2. job.pass = 3 /\ JobShows
      BY <1>1, <2>4, <3>1 DEF GridInv, ViewSound
    <3>3. \A c \in Cells : Passed(c)
      BY <3>2, Passes3 DEF Passed
    <3> QED
      BY <3>2, <3>3 DEF JobShows
  <2> QED
    BY <1>2, <2>1, <2>2, <2>3, <2>4, WorkerFrame DEF GridInv, ViewSound
<1> QED
  BY <1>3, <1>4, <1>5, <1>6, WorkerFrame DEF GridInv

\* The picture behind the options is none of the loader's business.
LEMMA PictureLoadedKept ==
  ASSUME GridInv, PictureLoaded, WorkerRest
  PROVE  GridInv'
<1>1. /\ wpc = "run" /\ wpc' = "clear" /\ event.func = get_pict
      /\ UNCHANGED <<init, evQ, event_thread_working, event, icons, int_currentdir, job>>
  BY DEF PictureLoaded, Return, loader
<1>2. job.at = "idle"
  BY <1>1 DEF GridInv, EventsSound, get_pict, get_games_2
<1>3. TypesSound'
  <2>1. EvTypeOK'
    BY <1>1, WorkerHas DEF EvTypeOK, WorkerPlaces
  <2> QED
    BY <1>1, <2>1, WorkerHas, WorkerTypes
<1>4. EventsSound'
  BY <1>1, <1>2, WorkerFrame DEF GridInv, EventsSound
<1>5. JobSound'
  BY <1>1, <1>2, WorkerFrame DEF GridInv, JobSound
<1>6. ViewSound'
  <2>1. Norm(int_currentdir)' = Norm(int_currentdir)
    BY <1>1, WorkerFrame DEF Norm, InList
  <2>2. \A c : Shows(c)' = Shows(c)
    BY <1>1, WorkerFrame DEF Shows
  <2>3. Showing' = Showing /\ (Coming => Coming')
    BY <1>1, WorkerFrame DEF Showing, Steady, Coming, get_pict, get_games_2
  <2> QED
    BY <1>1, <1>2, <2>1, <2>2, <2>3, WorkerFrame DEF GridInv, ViewSound
<1> QED
  BY <1>3, <1>4, <1>5, <1>6, WorkerFrame DEF GridInv

\* The loader stands at a cell of its list and skips it, or goes for its
\* picture.
LEMMA LoaderCellKept ==
  ASSUME GridInv, LoaderCell, WorkerRest
  PROVE  GridInv'
<1>1. /\ wpc = "run" /\ job.at = "cell" /\ job.pass < 3 /\ SkipCell
      /\ UNCHANGED <<evVars, int_currentdir>>
  BY DEF LoaderCell
<1>2. UNCHANGED <<evQ, wpc, event, event_thread_working>>
  BY <1>1 DEF evVars
<1>3. /\ job \in Job /\ job.cell \in Cells /\ icons \in [Cells -> Nat \cup {Outside}] /\ job.pass \in 0 .. 2
  BY <1>1, WorkerHas
<1>4. \/ CellIsEmpty /\ icons' = [icons EXCEPT ![job.cell] = 0] /\ NextCell
      \/ /\ ~CellIsEmpty /\ icons' = icons /\ NextCell
         /\ icons[job.cell] # 0 \/ PassOf(directories[CellEntry + 1]) # job.pass
      \/ /\ ~CellIsEmpty /\ icons' = icons /\ job' = [job EXCEPT !.at = "icon"]
         /\ PassOf(directories[CellEntry + 1]) = job.pass
  BY <1>1 DEF SkipCell
<1>5. /\ job' \in Job /\ job'.fav = job.fav
      /\ \/ /\ ~CellIsEmpty /\ job'.at = "icon" /\ job' = [job EXCEPT !.at = "icon"]
            /\ PassOf(directories[CellEntry + 1]) = job.pass /\ icons' = icons
         \/ job'.at = "cell" /\ NextCell
  <2>1. CASE NextCell
    BY <1>1, <1>4, <2>1, NextCellIs
  <2>2. CASE job' = [job EXCEPT !.at = "icon"]
    <3>1. job' \in Job /\ job'.at = "icon" /\ job'.fav = job.fav
      BY <1>3, <2>2 DEF Job
    <3> QED
      BY <1>4, <2>1, <2>2, <3>1
  <2> QED
    BY <1>4, <2>1, <2>2
<1>6. icons' \in [Cells -> Nat \cup {Outside}] /\ \A c \in Cells : icons'[c] = icons[c] \/ (c = job.cell /\ icons'[c] = 0)
  BY <1>3, <1>4
<1>7. TypesSound'
  BY <1>1, <1>5, <1>6, WorkerHas, WorkerTypes, EvTypeFrame
<1>8. EventsSound'
  <2>1. job'.at \in {"icon", "load"} => job'.pass = job.pass
    BY <1>3, <1>5 DEF Job
  <2> QED
    BY <1>1, <1>2, <2>1, WorkerFrame DEF GridInv, EventsSound
<1>9. JobSound'
  <2>1. ASSUME mode_favourites # 0, gui \notin {"favs", "wait"}, job'.at \in {"icon", "load"}
        PROVE  favourites[job'.cell].index >= 0
    <3>1. ~CellIsEmpty /\ job'.cell = job.cell
      BY <1>3, <1>5, <2>1 DEF Job
    <3>2. job.fav
      BY <1>1, <2>1 DEF GridInv, JobSound
    <3>3. InList(favourites[job.cell].index)
      BY <3>1, <3>2 DEF CellIsEmpty, CellEntry
    <3>4. favourites[job.cell].index \in Int
      BY <1>3, GridTypes DEF GridInv, Favourites
    <3> QED
      BY <3>1, <3>3, <3>4 DEF InList
  <2>2. \A c \in Cells : icons'[c] # 0 => icons[c] # 0
    BY <1>6
  <2> QED
    BY <1>1, <1>5, <2>1, <2>2, WorkerFrame DEF GridInv, JobSound
<1>10. ViewSound'
  <2>1. Norm(int_currentdir)' = Norm(int_currentdir)
    BY <1>1, WorkerFrame DEF Norm, InList
  <2>2. Coming' /\ Showing' = Showing
    BY <1>1, <1>2, WorkerFrame DEF Coming, Showing, Steady, GridInv, EventsSound
  <2>3. ASSUME Showing, ~raced, ~stale
        PROVE  JobShows' /\ \A c \in Cells : icons'[c] = 0 \/ Shows(c)'
    <3>1. JobShows /\ \A c \in Cells : icons[c] = 0 \/ Shows(c)
      BY <1>1, <2>3 DEF GridInv, ViewSound
    <3>2. /\ CellIsEmpty <=> ~HasPicture(job.cell)
          /\ HasPicture(job.cell) => CellEntry = get_currentdir(job.cell)
      BY <3>1, LoaderLooks
    <3>3. \A c \in Cells : ~HasPicture(c) => PictureOf(c) = 0
      BY DEF HasPicture, PictureOf
    <3>4. HasPicture(job.cell) => directories[CellEntry + 1] = EntryOf(job.cell)
      BY <3>2 DEF EntryOf
    <3>5. \A c \in Cells : Shows(c) => Shows(c)'
      BY <1>3, <1>4, <1>6, <3>2, <3>3, WorkerFrame DEF Shows
    <3>6. \A c \in Cells : icons'[c] = 0 \/ Shows(c)'
      BY <1>6, <3>1, <3>5
    <3>7. ASSUME NEW c \in Cells, HasPicture(c) => Passed(c)'
          PROVE  Shows(c)'
      <4>1. CASE ~HasPicture(c)
        BY <3>1, <3>5, <4>1 DEF JobShows
      <4>2. CASE HasPicture(c) /\ Passed(c)
        BY <3>1, <3>5, <4>2 DEF JobShows
      <4>3. CASE HasPicture(c) /\ ~Passed(c)
        <5>1. PassOf(EntryOf(c))' = PassOf(EntryOf(c)) /\ PassOf(EntryOf(c)) \in 0 .. 2
          BY WorkerFrame, Passes3 DEF PassOf
        <5> DEFINE p == PassOf(EntryOf(c))
        <5>2. p < job'.pass \/ (p = job'.pass /\ c < job'.cell)
          BY <3>7, <4>3, <5>1 DEF Passed
        <5>3. ~(p < job.pass \/ (p = job.pass /\ c < job.cell))
          BY <4>3 DEF Passed
        <5>4. CASE NextCell
          <6> HIDE DEF p
          <6>1. p = job.pass /\ c = job.cell
            BY <1>1, <5>1, <5>2, <5>3, <5>4, NextCellIs DEF p
          <6>2. HasPicture(job.cell) /\ PassOf(directories[CellEntry + 1]) = job.pass
            BY <3>4, <4>3, <6>1 DEF p
          <6>3. icons[job.cell] # 0
            <7>1. ~(job' = [job EXCEPT !.at = "icon"])
              BY <1>1, <1>3, <5>4, NextCellIs DEF Job
            <7> QED
              BY <1>4, <3>2, <6>2, <7>1
          <6> QED
            BY <3>1, <3>5, <6>1, <6>3
        <5>5. CASE job' = [job EXCEPT !.at = "icon"]
          <6>1. job'.pass = job.pass /\ job'.cell = job.cell
            BY <1>3, <5>5 DEF Job
          <6> QED
            BY <5>2, <5>3, <6>1
        <5> QED
          BY <1>5, <5>4, <5>5
      <4> QED
        BY <4>1, <4>2, <4>3
    <3>8. \A c \in Cells : (HasPicture(c) => Passed(c))' => Shows(c)'
      BY <3>7, WorkerFrame
    <3>9. job'.at \in {"icon", "load"} =>
            HasPicture(job'.cell) /\ PassOf(EntryOf(job'.cell)) = job'.pass
      <4>1. CASE job'.at = "cell"
        BY <4>1
      <4>2. CASE job'.at # "cell"
        <5>1. ~CellIsEmpty /\ job' = [job EXCEPT !.at = "icon"] /\ PassOf(directories[CellEntry + 1]) = job.pass
          BY <1>5, <4>2
        <5>2. job'.pass = job.pass /\ job'.cell = job.cell
          BY <1>3, <5>1 DEF Job
        <5> QED
          BY <1>1, <3>2, <3>4, <5>1, <5>2
      <4> QED
        BY <4>1, <4>2
    <3>10. HasPicture(job'.cell) = HasPicture(job.cell)' /\ EntryOf(job'.cell) = EntryOf(job.cell)'
      BY WorkerFrame DEF HasPicture, EntryOf, InList, get_currentdir
    <3>11. job'.at # "load" /\ job'.fav = (mode_favourites' # 0)
           /\ (mode_favourites' = 0 => int_currentdir' = Norm(currentdir)')
      BY <1>1, <1>5, <3>1, WorkerFrame DEF JobShows
    <3>12. JobShows'
      BY <3>8, <3>9, <3>10, <3>11 DEF JobShows
    <3> QED
      BY <3>6, <3>12
  <2> QED
    BY <1>1, <2>1, <2>2, <2>3, WorkerFrame DEF GridInv, ViewSound
<1> QED
  BY <1>7, <1>8, <1>9, <1>10, WorkerFrame DEF GridInv

\* The icon is read from the entry the cell shows, when the list is not
\* being rewritten.
LEMMA LoaderIconKept ==
  ASSUME GridInv, LoaderIcon, WorkerRest
  PROVE  GridInv'
<1>1. /\ wpc = "run" /\ job.at = "icon"
      /\ UNCHANGED <<evVars, icons, int_currentdir>>
  BY DEF LoaderIcon
<1>2. UNCHANGED <<evQ, wpc, event, event_thread_working>>
  BY <1>1 DEF evVars
<1>3. job \in Job /\ directories \in Seq(Entry)
  BY WorkerHas, GridTypes DEF GridInv
<1>4. PICK id \in IF listing THEN {e.id : e \in ToSet(directories)} \cup {Outside} ELSE {IdAt(CellEntry)} :
        job' = [job EXCEPT !.at = "load", !.game = id]
  BY DEF LoaderIcon
<1>5. id \in Nat \cup {Outside}
  <2>1. \A i \in 1 .. Len(directories) : directories[i].id \in Nat
    <3>1. \A e \in Entry : e.id \in Nat
      BY DEF Entry
    <3>2. \A i \in 1 .. Len(directories) : directories[i] \in Entry
      BY <1>3
    <3> QED
      BY <3>1, <3>2
  <2>2. \A e \in ToSet(directories) : e.id \in Nat
    BY <1>3, <2>1, InToSet
  <2>3. \A n : IdAt(n) \in Nat \cup {Outside}
    <3>1. ASSUME NEW n \in 0 .. Len(directories) - 1
          PROVE  directories[n + 1].id \in Nat
      <4>1. n + 1 \in 1 .. Len(directories)
        BY <1>3
      <4> QED
        BY <2>1, <4>1
    <3> QED
      BY <3>1 DEF IdAt
  <2> QED
    BY <1>4, <2>2, <2>3
<1>6. /\ job' \in Job /\ job'.at = "load" /\ job'.game = id
      /\ job'.fav = job.fav /\ job'.pass = job.pass /\ job'.cell = job.cell
  BY <1>3, <1>4, <1>5 DEF Job
<1>7. TypesSound'
  BY <1>1, <1>6, WorkerHas, WorkerTypes, EvTypeFrame
<1>8. EventsSound'
  BY <1>1, <1>2, <1>6, WorkerFrame DEF GridInv, EventsSound
<1>9. JobSound'
  BY <1>1, <1>6, WorkerFrame DEF GridInv, JobSound
<1>10. ViewSound'
  <2>1. Norm(int_currentdir)' = Norm(int_currentdir)
    BY <1>1, WorkerFrame DEF Norm, InList
  <2>2. Coming' /\ Showing' = Showing
    BY <1>1, <1>2, WorkerFrame DEF Coming, Showing, Steady, GridInv, EventsSound
  <2>3. \A c : (Shows(c)' = Shows(c)) /\ (Passed(c)' = Passed(c))
    BY <1>1, <1>6, WorkerFrame DEF Shows, Passed
  <2>4. ASSUME Showing, ~raced, ~stale
        PROVE  JobShows'
    <3>1. JobShows
      BY <1>1, <2>4 DEF GridInv, ViewSound
    <3>2. HasPicture(job.cell) /\ CellEntry = get_currentdir(job.cell)
      BY <1>1, <3>1, LoaderLooks DEF JobShows
    <3>3. listing = FALSE
      BY <2>4 DEF GridInv, TypesSound, Showing
    <3>4. id = PictureOf(job.cell)
      BY <1>4, <3>2, <3>3 DEF HasPicture, PictureOf
    <3>5. /\ HasPicture(job'.cell) = HasPicture(job.cell)' /\ EntryOf(job'.cell) = EntryOf(job.cell)'
          /\ PictureOf(job.cell)' = PictureOf(job'.cell)
      BY WorkerFrame DEF HasPicture, EntryOf, InList, get_currentdir, PictureOf, IdAt
    <3> QED
      BY <1>1, <1>6, <2>3, <3>1, <3>4, <3>5, WorkerFrame DEF JobShows
  <2> QED
    BY <1>1, <2>1, <2>2, <2>3, <2>4, WorkerFrame DEF GridInv, ViewSound
<1> QED
  BY <1>7, <1>8, <1>9, <1>10, WorkerFrame DEF GridInv

LEMMA LoaderLoadKept ==
  ASSUME GridInv, LoaderLoad, WorkerRest
  PROVE  GridInv'
<1>1. /\ wpc = "run" /\ job.at = "load" /\ NextCell
      /\ icons' = [icons EXCEPT ![job.cell] = job.game]
      /\ UNCHANGED <<evVars, int_currentdir>>
  BY DEF LoaderLoad
<1>2. UNCHANGED <<evQ, wpc, event, event_thread_working>>
  BY <1>1 DEF evVars
<1>3. /\ job \in Job /\ job.cell \in Cells /\ icons \in [Cells -> Nat \cup {Outside}] /\ job.game \in Nat \cup {Outside}
      /\ job.pass \in 0 .. 3
  BY WorkerHas DEF Job
<1>4. icons' \in [Cells -> Nat \cup {Outside}] /\ \A c \in Cells : icons'[c] = IF c = job.cell THEN job.game ELSE icons[c]
  BY <1>1, <1>3
<1>5. job.pass < 3
  BY <1>1 DEF GridInv, EventsSound
<1>6. /\ job' \in Job /\ job'.at = "cell" /\ job'.fav = job.fav
      /\ \A p \in 0 .. 2, c \in Cells : (p < job'.pass \/ (p = job'.pass /\ c < job'.cell)) =>
           (p < job.pass \/ (p = job.pass /\ c < job.cell)) \/ (p = job.pass /\ c = job.cell)
  BY <1>1, <1>5, NextCellIs
<1>7. TypesSound'
  BY <1>1, <1>4, <1>6, WorkerHas, WorkerTypes, EvTypeFrame
<1>8. EventsSound'
  BY <1>1, <1>2, <1>6, WorkerFrame DEF GridInv, EventsSound
<1>9. JobSound'
  <2>1. ASSUME mode_favourites # 0, gui \notin {"favs"} \cup Placing, NEW c \in Cells, icons'[c] # 0
        PROVE  favourites[c].index >= 0
    <3>1. CASE c = job.cell
      BY <1>1, <2>1, <3>1 DEF GridInv, JobSound, Placing
    <3>2. CASE c # job.cell
      BY <1>4, <2>1, <3>2 DEF GridInv, JobSound, Placing
    <3> QED
      BY <3>1, <3>2
  <2> QED
    BY <1>1, <1>6, <2>1, WorkerFrame DEF GridInv, JobSound
<1>10. ViewSound'
  <2>1. Norm(int_currentdir)' = Norm(int_currentdir)
    BY <1>1, WorkerFrame DEF Norm, InList
  <2>2. Coming' /\ Showing' = Showing
    BY <1>1, <1>2, WorkerFrame DEF Coming, Showing, Steady, GridInv, EventsSound
  <2>3. ASSUME Showing, ~raced, ~stale
        PROVE  JobShows' /\ \A c \in Cells : icons'[c] = 0 \/ Shows(c)'
    <3>1. JobShows /\ \A c \in Cells : icons[c] = 0 \/ Shows(c)
      BY <1>1, <2>3 DEF GridInv, ViewSound
    <3>2. job.game = PictureOf(job.cell)
      BY <1>1, <3>1 DEF JobShows
    <3>3. \A c \in Cells : (c = job.cell \/ Shows(c)) => Shows(c)'
      BY <1>4, <3>2, WorkerFrame DEF Shows
    <3>4. \A c \in Cells : icons'[c] = 0 \/ Shows(c)'
      BY <1>4, <3>1, <3>3
    <3>5. ASSUME NEW c \in Cells, HasPicture(c) => Passed(c)'
          PROVE  Shows(c)'
      <4>1. PassOf(EntryOf(c))' = PassOf(EntryOf(c)) /\ PassOf(EntryOf(c)) \in 0 .. 2
        BY WorkerFrame, Passes3 DEF PassOf
      <4> DEFINE p == PassOf(EntryOf(c))
      <4>2. HasPicture(c) => p < job'.pass \/ (p = job'.pass /\ c < job'.cell)
        BY <3>5, <4>1 DEF Passed
      <4>3. Passed(c) <=> (p < job.pass \/ (p = job.pass /\ c < job.cell))
        BY DEF Passed
      <4>4. p \in 0 .. 2
        BY <4>1
      <4> HIDE DEF p
      <4>5. HasPicture(c) => Passed(c) \/ c = job.cell
        BY <1>6, <4>2, <4>3, <4>4
      <4> QED
        BY <3>1, <3>3, <4>5 DEF JobShows
    <3>6. \A c \in Cells : (HasPicture(c) => Passed(c))' => Shows(c)'
      BY <3>5, WorkerFrame
    <3> QED
      BY <1>1, <1>6, <3>1, <3>4, <3>6, WorkerFrame DEF JobShows
  <2> QED
    BY <1>1, <2>1, <2>2, <2>3, WorkerFrame DEF GridInv, ViewSound
<1> QED
  BY <1>7, <1>8, <1>9, <1>10, WorkerFrame DEF GridInv

-----------------------------------------------------------------------------
(* The invariant holds, and what it says.                                  *)

LEMMA GridStarts == GridInit => GridInv
<1> SUFFICES ASSUME GridInit PROVE GridInv
  OBVIOUS
<1>1. /\ init = 1 /\ evQ = <<>> /\ event_thread_working = 0 /\ wpc = "receive" /\ event = Exit
      /\ plugged \in {{"hdd"}, {"hdd", "usb"}} /\ shelf = Shelf /\ fdevices = {} /\ forcedevices = {}
      /\ directories = <<>> /\ listing = FALSE
      /\ currentdir = 0 /\ select_px = 0 /\ select_py = 0 /\ currentgamedir = 0 /\ menu_screen = 0
      /\ mode_favourites = 1 /\ havefavourites = FALSE
      /\ icons = [c \in Cells |-> 0] /\ int_currentdir = 0 /\ break_get_games = 0 /\ job = NotLoading
      /\ gui = "turn" /\ then = "turn" /\ drawn = [screen |-> 0, cell |-> 0]
      /\ raced = FALSE /\ stale = FALSE
      /\ chosen = NULL /\ acted = NULL /\ inserted = FALSE /\ wanted = NULL
  BY DEF GridInit, EvStarted
<1>2. /\ favourites \in Favourites
      /\ \A c \in Cells : favourites[c].index = -1
      /\ \A c, d \in Cells : favourites[c].id = favourites[d].id /\ favourites[c].id # 0 => c = d
  <2>1. /\ favourites \in [Cells -> {[id |-> i, index |-> -1] : i \in FavouriteIds \cup {0}}]
        /\ \A c, d \in Cells : favourites[c].id = favourites[d].id => c = d \/ favourites[c].id = 0
    BY DEF GridInit
  <2>2. FavouriteIds \subseteq Nat /\ Capacity \in Nat
    BY GameGridAssumption, CapacityAssumption
  <2> DEFINE none == -1
             range == -1 .. Capacity
  <2>3. none \in range
    BY <2>2
  <2>4. favourites \in [Cells -> {[id |-> i, index |-> none] : i \in FavouriteIds \cup {0}}]
    BY <2>1
  <2> HIDE DEF none, range
  <2>5. \A i \in FavouriteIds \cup {0} : [id |-> i, index |-> none] \in [id : Nat, index : range]
    BY <2>2, <2>3
  <2>6. favourites \in [Cells -> [id : Nat, index : range]] /\ \A c \in Cells : favourites[c].index = none
    BY <2>4, <2>5
  <2> QED
    BY <2>1, <2>6 DEF none, range, Favourites
<1>3. TypesSound
  <2>1. /\ 0 \in 0 .. W - 1 /\ 0 \in 0 .. H - 1 /\ 0 \in Cells /\ 0 \in 0 .. G
    BY Grid
  <2>2. EvTypeOK
    BY <1>1, QueueSizeAssumption DEF EvTypeOK, WorkerPlaces, Event, Exit
  <2>3. directories \in Seq(Entry) /\ Len(directories) <= Capacity
    BY <1>1, CapacityAssumption
  <2>4. /\ job.at \in {"idle", "cell", "icon", "load"} /\ job.cell \in 0 .. G /\ job.pass \in 0 .. 3
        /\ job \in [at : {"idle", "cell", "icon", "load"}, fav : BOOLEAN, pass : 0 .. 3, cell : Cells,
                     game : Nat \cup {Outside}]
    BY <1>1, <2>1 DEF NotLoading
  <2>5. icons \in [Cells -> Nat \cup {Outside}] /\ drawn \in [screen : {0, 1, 2}, cell : Cells]
    BY <1>1, <2>1
  <2>6. GgTypeOK
    BY <1>1, <1>2, <2>1, <2>2, <2>3, <2>4, <2>5 DEF GgTypeOK, Favourites, Devices
  <2>7. shelf \in [Devices -> SUBSET File] /\ \A d \in Devices : shelf[d] \subseteq Shelf[d]
    BY <1>1, GameGridAssumption DEF File
  <2>8. /\ gui \in {"turn", "listing", "favs", "relisted", "wait", "lower", "dir", "send", "frame",
                  "flip", "waitpict", "asked", "exit"}
        /\ gui # "exit"
    BY <1>1
  <2>9. listing = (gui = "listing")
    BY <1>1
  <2>10. "hdd" \in plugged
    BY <1>1
  <2>11. /\ currentdir \in Int /\ currentgamedir \in Int /\ int_currentdir \in Int
         /\ mode_favourites \in Nat /\ break_get_games \in {0, 1}
         /\ then \in {"turn", "relisted", "frame"}
    BY <1>1
  <2>12. havefavourites \in BOOLEAN /\ raced \in BOOLEAN /\ stale \in BOOLEAN /\ inserted \in BOOLEAN
    BY <1>1, Zenon
  <2> QED
    BY <2>3, <2>4, <2>6, <2>7, <2>8, <2>9, <2>10, <2>11, <2>12 DEF TypesSound
<1>4. EventsSound
  BY <1>1 DEF EventsSound, NotLoading
<1>5. PagesSound
  BY <1>1, Grid DEF PagesSound, DiscOnTop
<1>6. FavouritesSound
  BY <1>1, <1>2 DEF FavouritesSound, Emptied
<1>7. MenuSound
  BY <1>1 DEF MenuSound, Open, ActsOnTheChosen
<1>8. WantedSound
  BY <1>1 DEF WantedSound
<1>9. JobSound
  BY <1>1 DEF JobSound, NotLoading
<1>10. ViewSound
  BY <1>1 DEF ViewSound, Showing, Steady
<1> QED
  BY <1>3, <1>4, <1>5, <1>6, <1>7, <1>8, <1>9, <1>10 DEF GridInv

-----------------------------------------------------------------------------
(* Every step keeps the inductive invariant.                               *)

LEMMA WorkerKept ==
  ASSUME GridInv, Worker
  PROVE  GridInv'
<1>1. CASE (Receive \/ Dispatch \/ Clear) /\ UNCHANGED loader
  <2>1. WorkerRest
    BY <1>1 DEF Worker, WorkerRest, loader
  <2> QED
    BY <1>1, <2>1, HandlingKept
<1>2. CASE StartLoader
  <2>1. WorkerRest
    BY <1>2 DEF Worker, WorkerRest, StartLoader
  <2> QED
    BY <1>2, <2>1, StartLoaderKept
<1>3. CASE LoaderEnds
  <2>1. WorkerRest
    BY <1>3 DEF Worker, WorkerRest, LoaderEnds
  <2> QED
    BY <1>3, <2>1, LoaderEndsKept
<1>4. CASE LoaderCell
  <2>1. WorkerRest
    BY <1>4 DEF Worker, WorkerRest, LoaderCell
  <2> QED
    BY <1>4, <2>1, LoaderCellKept
<1>5. CASE LoaderIcon
  <2>1. /\ UNCHANGED <<devs, list, cursor, screen, favs, last_game, gui, then, drawn, inputs, history>>
        /\ UNCHANGED break_get_games
    BY <1>5 DEF Worker, LoaderIcon
  <2>2. WorkerRest
    BY <2>1 DEF WorkerRest
  <2> QED
    BY <1>5, <2>2, LoaderIconKept
<1>6. CASE LoaderLoad
  <2>1. WorkerRest
    BY <1>6 DEF Worker, WorkerRest, LoaderLoad
  <2> QED
    BY <1>6, <2>1, LoaderLoadKept
<1>7. CASE PictureLoaded
  <2>1. WorkerRest
    BY <1>7 DEF Worker, WorkerRest, PictureLoaded, loader
  <2> QED
    BY <1>7, <2>1, PictureLoadedKept
<1> QED
  BY <1>1, <1>2, <1>3, <1>4, <1>5, <1>6, <1>7 DEF Worker

LEMMA MainLoopKept ==
  ASSUME GridInv, MainLoop
  PROVE  GridInv'
<1>1. CASE GetGamesWaits \/ GetGamesLowers \/ GetGamesPlaces \/ GetGamesSends
  BY <1>1, GetGamesWaitsKept, GetGamesLowersKept, GetGamesPlacesKept, GetGamesSendsKept
<1>2. CASE \E scans \in BOOLEAN : Turn(scans)
  BY <1>2, TurnKept
<1>3. CASE Listed \/ FavouritesUpdated \/ Relisted \/ Frame \/ SelectOpens
  BY <1>3, ListedKept, FavouritesUpdatedKept, RelistedKept, FrameKept, SelectOpensKept
<1>4. CASE Idles
  <2>1. (gui = "flip" /\ drawn.screen = 0 /\ NoKey /\ GuiRest) \/ NoPad
    BY <1>4 DEF Idles
  <2> QED
    BY <2>1, NoKeyKept, NoPadKept
<1> QED
  BY <1>1, <1>2, <1>3, <1>4 DEF MainLoop

LEMMA KeyKept ==
  ASSUME GridInv, Key
  PROVE  GridInv'
<1>1. CASE GuiControl
  <2>1. gui = "flip" /\ drawn.screen = 0 /\ GuiRest
    BY <1>1 DEF GuiControl
  <2>2. \/ NoKey \/ (\E l2 \in BOOLEAN : Triangle(l2)) \/ Cross \/ Navigate \/ ListReset
        \/ SelectMissing \/ SelectWaits
    BY <1>1 DEF GuiControl
  <2> QED
    BY <2>1, <2>2, NoKeyKept, TriangleKept, CrossKept, NavigateKept, ListResetKept, SelectMissingKept,
       SelectWaitsKept
<1>2. CASE DrawOptions /\ OptionsRest
  <2>1. gui = "flip" /\ drawn.screen = 1
    BY <1>2 DEF DrawOptions
  <2>2. \/ ShowConfig \/ BackToGrid \/ AskFtp \/ ToggleFavourite
        \/ \E confirmed \in BOOLEAN : Delete(confirmed)
    BY <1>2 DEF DrawOptions
  <2> QED
    BY <1>2, <2>1, <2>2, DrawOptionsScreens, ToggleFavouriteKept, DeleteKept
<1>3. CASE DrawConfigs /\ OptionsRest
  BY <1>3, DrawConfigsKept
<1>4. CASE OptionsAnswered /\ OptionsRest
  <2>1. gui = "asked" /\ drawn.screen = 1
    BY <1>4 DEF OptionsAnswered, GridInv, MenuSound
  <2>2. Refused \/ \E confirmed \in BOOLEAN : Delete(confirmed)
    BY <1>4 DEF OptionsAnswered
  <2> QED
    BY <1>4, <2>1, <2>2, RefusedKept, DeleteKept
<1> QED
  BY <1>1, <1>2, <1>3, <1>4 DEF Key

LEMMA StutterKept ==
  ASSUME GridInv, UNCHANGED gridVars
  PROVE  GridInv'
<1>1. /\ UNCHANGED <<evVars, devs, list, cursor, screen, favs, last_game, gui, then, drawn, inputs, history>>
      /\ UNCHANGED <<icons, int_currentdir, break_get_games, job>>
  BY DEF gridVars, loader
<1>2. WorkerRest
  BY <1>1 DEF WorkerRest
<1>3. TypesSound'
  BY <1>1, <1>2, WorkerHas, WorkerTypes, EvTypeFrame
<1>4. EventsSound'
  BY <1>1, EventsFrame DEF GridInv, EventsSound
<1>5. JobSound'
  BY <1>1, <1>2, WorkerFrame DEF GridInv, JobSound
<1>6. ViewSound'
  <2>1. Norm(int_currentdir)' = Norm(int_currentdir) /\ Showing' = Showing
    BY <1>1, <1>2, WorkerFrame DEF Norm, InList, Showing, Steady
  <2>2. Coming' = Coming
    BY <1>1 DEF Coming, evVars
  <2>3. JobShows' = JobShows
    BY <1>1, <1>2, WorkerFrame DEF JobShows, Shows, Passed
  <2>4. \A c \in Cells : Shows(c)' = Shows(c)
    BY <1>1, <1>2, WorkerFrame DEF Shows
  <2> QED
    BY <1>1, <1>2, <2>1, <2>2, <2>3, <2>4, WorkerFrame DEF GridInv, ViewSound
<1> QED
  BY <1>2, <1>3, <1>4, <1>5, <1>6, WorkerFrame DEF GridInv

LEMMA NextKept == GridInv /\ [GridNext]_gridVars => GridInv'
<1> SUFFICES ASSUME GridInv, [GridNext]_gridVars
             PROVE  GridInv'
  OBVIOUS
<1>1. CASE Plug
  BY <1>1, DiscInsertKept, DevicesChangeKept DEF Plug
<1> QED
  BY <1>1, MainLoopKept, KeyKept, WorkerKept, StutterKept DEF GridNext

-----------------------------------------------------------------------------
(* The theorems.                                                           *)

\* A loader with nothing left to do has been at every cell.
LEMMA QuietShows ==
  ASSUME GridInv, gui \in {"frame", "flip"}, LoaderQuiet, ~raced, ~stale
  PROVE  \A c \in Cells : icons[c] = PictureOf(c)
<1>1. Showing
  BY DEF GridInv, PagesSound, Showing, Placing
<1>2. ~Coming
  BY DEF LoaderQuiet, Coming
<1> QED
  BY <1>1, <1>2 DEF GridInv, ViewSound, Shows

\* The list, the cursor, the favourites, the screens and the loader are what
\* the main loop takes them for, whatever interrupts it.
THEOREM GridIsSound == GridSpec => []GridInv
<1>1. GridInv /\ [GridNext]_gridVars => GridInv'
  BY NextKept
<1> QED
  BY <1>1, GridStarts, PTL DEF GridSpec

\* The counters stay in their ranges, the main loop's checks of its own state
\* never end it, and once the loader has nothing left to do every cell shows
\* the game that choosing it acts on.
THEOREM LoaderKeepsUp == GridSpec => []TheLoaderKeepsUp
<1>1. GridInv => TheLoaderKeepsUp
  <2> SUFFICES ASSUME GridInv PROVE TheLoaderKeepsUp
    OBVIOUS
  <2>1. GgTypeOK /\ NoParanoidExit
    BY DEF GridInv, TypesSound, NoParanoidExit
  <2> QED
    BY <2>1, QuietShows DEF TheLoaderKeepsUp, IconsAreTheGames
<1> QED
  BY <1>1, GridIsSound, PTL

\* The options act on the game they were opened for, and the cursor finds the
\* player's game again in a list made anew.
THEOREM PlayersGameStays == GridSpec => []ThePlayersGame
<1>1. GridInv => ThePlayersGame
  BY DEF GridInv, MenuSound, WantedSound, ThePlayersGame, CursorFollowsTheGame, Placing
<1> QED
  BY <1>1, GridIsSound, PTL

\* What a step at the pad does to the favourites, apart from SELECT.
LEMMA OnlySelectDrops ==
  ASSUME [GridNext]_gridVars, gui = "flip", drawn.screen = 0, mode_favourites = 1
  PROVE  favourites' = favourites \/ SelectMissing
<1>1. CASE MainLoop
  <2>1. \/ gui # "flip" \/ Idles
    BY <1>1 DEF MainLoop, GetGamesWaits, GetGamesLowers, GetGamesPlaces, GetGamesSends, Step, Turn, Listed,
       FavouritesUpdated, Relisted, Frame, SelectOpens
  <2> QED
    BY <2>1 DEF Idles, NoKey, NoPad, NoMove, favs
<1>2. CASE Key
  <2>1. GuiControl
    BY <1>2 DEF Key, DrawOptions, DrawConfigs, OptionsAnswered
  <2>2. ~Cross
    BY DEF Cross, Insert
  <2> QED
    BY <2>1, <2>2 DEF GuiControl, NoKey, Triangle, Navigate, ListReset, SelectWaits, favs
<1>3. CASE Worker
  BY <1>3 DEF Worker, favs
<1>4. CASE Plug
  BY <1>4 DEF Plug, DiscInsertCallback, DevicesChange, favs
<1>5. CASE UNCHANGED gridVars
  BY <1>5 DEF gridVars, favs
<1> QED
  BY <1>1, <1>2, <1>3, <1>4, <1>5 DEF GridNext

\* A favourite of the list leaves the favourites by SELECT only before the
\* loader has been at its cell.
THEOREM FavouritesStay == GridSpec => ListedFavouritesStay
<1> DEFINE A == \A c \in Cells :
                  /\ gui = "flip" /\ drawn.screen = 0 /\ mode_favourites = 1
                  /\ InList(favourites[c].index) /\ ~TestFavouritesExits(favourites', favourites[c].id)
                  => ~LoaderQuiet \/ raced \/ stale
<1>1. GridInv /\ [GridNext]_gridVars => A
  <2> SUFFICES ASSUME GridInv, [GridNext]_gridVars, NEW c \in Cells,
                      gui = "flip", drawn.screen = 0, mode_favourites = 1, InList(favourites[c].index),
                      ~TestFavouritesExits(favourites', favourites[c].id),
                      LoaderQuiet, ~raced, ~stale
               PROVE  FALSE
    OBVIOUS
  <2>1. favourites \in Favourites /\ directories \in Seq(Entry) /\ Selected \in Cells
    BY GridTypes, Drawn DEF GridInv
  <2>2. DOMAIN favourites = Cells /\ favourites[c].index \in 0 .. Len(directories) - 1
    BY <2>1 DEF Favourites, InList
  <2>3. CASE favourites' = favourites
    BY <2>2, <2>3 DEF TestFavouritesExits
  <2>4. CASE SelectMissing
    <3>1. icons[Selected] = 0 /\ favourites[Selected].id # 0
          /\ favourites' = DeleteFavouritesIfExits(favourites, favourites[Selected].id)
      BY <2>4 DEF SelectMissing, WithoutPicture
    <3>2. favourites[c].id = favourites[Selected].id
      BY <2>2, <3>1 DEF TestFavouritesExits, DeleteFavouritesIfExits
    <3>3. favourites[c].index >= 0 /\ ~Emptied
      BY <2>2, Drawn
    <3>4. c = Selected /\ IdAt(favourites[c].index) = favourites[c].id
      BY <2>1, <3>1, <3>2, <3>3 DEF GridInv, FavouritesSound
    <3>5. \A d \in Cells : icons[d] = PictureOf(d)
      BY QuietShows
    <3> QED
      BY <2>1, <3>1, <3>4, <3>5 DEF PictureOf, get_currentdir
  <2> QED
    BY <2>3, <2>4, OnlySelectDrops
<1>2. GridSpec => [][A]_gridVars
  BY <1>1, GridIsSound, PTL DEF GridSpec
<1> QED
  BY <1>2 DEF ListedFavouritesStay

(***************************************************************************)
(* MOVES ON THE DISK                                                       *)
(***************************************************************************)

-----------------------------------------------------------------------------
(* The BD emulator. To know that a game runs with its own folders one has  *)
(* to know, at every step before, which folders are at the root (Tidy),    *)
(* that a folder about to move is at home (Poised) and its note written    *)
(* (NoteIsSaved).                                                          *)
FoldersStay ==
  \A g \in BdGames, d \in Dirs : place[<<g, d>>] = "nowhere" <=> d \notin DirsOf(g)

NoteIsSaved ==
  "unflushed" \notin bdodd =>
    /\ bdpc = "moveGame" => note[<<game, "PS3_GAME">>] = game
    /\ bdpc = "moveGm01" => note[<<game, "PS3_GM01">>] = game

Poised ==
  /\ bdpc \in {"saveGame", "moveGame"} => place[<<game, "PS3_GAME">>] = "home"
  /\ bdpc \in {"saveGm01", "moveGm01"} => place[<<game, "PS3_GM01">>] = "home"

Tidy ==
  bdodd = {} =>
    /\ \A g \in BdGames, d \in Dirs : place[<<g, d>>] # "astray"
    /\ bdpc \in {"idle", "saveGame", "moveGame"} => \A d \in Dirs : AtRoot(d) = {}
    /\ bdpc \in {"saveGm01", "moveGm01"} =>
         AtRoot("PS3_GAME") = {game} /\ AtRoot("PS3_GM01") = {} /\ game \in WithGM01
    /\ bdpc = "backGm01" => AtRoot("PS3_GAME") = {}

BdInv == BdTypeOK /\ FoldersStay /\ TheWayHomeIsKnown /\ NoteIsSaved /\ Poised /\ Tidy /\ RunsWithItsOwn

(* The initial states satisfy the invariant.                               *)
LEMMA BdInitInv == BdInit => BdInv
  BY BdAssumption DEF BdInit, BdInv, BdTypeOK, FoldersStay, TheWayHomeIsKnown, NoteIsSaved, Poised, Tidy, RunsWithItsOwn,
     Folders, Dirs, DirsOf, AtRoot, BdOddThings

(* A folder that moves changes one place, and the root by itself.          *)
Moved(g, d, x) == place' = [place EXCEPT ![<<g, d>>] = x]

\* What a move leaves: one place changed, and the root by itself.
LEMMA MovedAt ==
  ASSUME NEW g \in BdGames, NEW d \in Dirs, NEW x, BdTypeOK, Moved(g, d, x)
  PROVE  /\ \A h \in BdGames, e \in Dirs : place'[<<h, e>>] = IF h = g /\ e = d THEN x ELSE place[<<h, e>>]
         /\ \A e \in Dirs \ {d} : AtRoot(e)' = AtRoot(e)
         /\ x = "root" => AtRoot(d)' = AtRoot(d) \cup {g}
         /\ x # "root" => AtRoot(d)' = AtRoot(d) \ {g}
         /\ x \in {"home", "root", "nowhere", "astray"} =>
              place' \in [Folders -> {"home", "root", "nowhere", "astray"}]
<1>1. \A h \in BdGames, e \in Dirs : place'[<<h, e>>] = IF h = g /\ e = d THEN x ELSE place[<<h, e>>]
  BY DEF BdTypeOK, Folders, Moved
<1>2. ASSUME NEW e \in Dirs \ {d} PROVE AtRoot(e)' = AtRoot(e)
  <2>1. \A h \in BdGames : place'[<<h, e>>] = place[<<h, e>>]
    BY <1>1
  <2> QED
    BY <2>1 DEF AtRoot
<1>3. x = "root" => AtRoot(d)' = AtRoot(d) \cup {g}
  BY <1>1 DEF AtRoot
<1>4. x # "root" => AtRoot(d)' = AtRoot(d) \ {g}
  BY <1>1 DEF AtRoot
<1>5. x \in {"home", "root", "nowhere", "astray"} => place' \in [Folders -> {"home", "root", "nowhere", "astray"}]
  BY DEF BdTypeOK, Moved
<1> QED
  BY <1>1, <1>2, <1>3, <1>4, <1>5

(* A step that moves no folder and writes no note.                         *)
LEMMA NothingMoves ==
  ASSUME BdInv, bdpc' \in {"idle", "saveGame", "start"}, game' \in BdGames, UNCHANGED <<place, note, bdodd>>,
         bdpc' # "start" => bdpc = "idle",
         bdpc' = "saveGame" => place[<<game', "PS3_GAME">>] = "home"
  PROVE  BdInv'
<1>1. \A d \in Dirs : AtRoot(d)' = AtRoot(d)
  BY DEF AtRoot
<1>2. BdTypeOK'
  BY DEF BdInv, BdTypeOK
<1>3. FoldersStay'
  BY DEF BdInv, FoldersStay
<1>4. TheWayHomeIsKnown'
  BY DEF BdInv, TheWayHomeIsKnown, AtRoot
<1>5. NoteIsSaved'
  BY DEF BdInv, NoteIsSaved
<1>6. Tidy'
  BY <1>1 DEF BdInv, Tidy
<1>7. RunsWithItsOwn'
  BY DEF BdInv, RunsWithItsOwn
<1>8. Poised'
  BY DEF BdInv, Poised
<1> QED
  BY <1>2, <1>3, <1>4, <1>5, <1>6, <1>7, <1>8 DEF BdInv

\* A launch, a meeting with a game and a restart keep the invariant.
LEMMA LaunchInv == BdInv /\ (Launch \/ MeetAgain \/ Restart) => BdInv'
<1> SUFFICES ASSUME BdInv, Launch \/ MeetAgain \/ Restart PROVE BdInv'
  OBVIOUS
<1>1. bdpc' \in {"idle", "saveGame", "start"} /\ game' \in BdGames
  BY DEF Launch, MeetAgain, Restart, BdAt, BdInv, BdTypeOK
<1>2. UNCHANGED <<place, note, bdodd>> /\ (bdpc' # "start" => bdpc = "idle")
  BY DEF Launch, MeetAgain, Restart, BdAt
<1>3. bdpc' = "saveGame" => place[<<game', "PS3_GAME">>] = "home"
  BY DEF Launch, MeetAgain, Restart, BdAt
<1> QED
  BY <1>1, <1>2, <1>3, NothingMoves

(* A note is written into a folder that is not at the root; what it holds  *)
(* does not matter there.                                                  *)
LEMMA NoteInv == BdInv /\ (SaveNoteOfGame \/ SaveNoteOfGm01) => BdInv'
<1> SUFFICES ASSUME BdInv,
                    NEW d \in Dirs, NEW next,
                    SaveNote(d, next), UNCHANGED <<game, place>>,
                    \/ d = "PS3_GAME" /\ next = "moveGame" /\ bdpc = "saveGame"
                    \/ d = "PS3_GM01" /\ next = "moveGm01" /\ bdpc = "saveGm01"
             PROVE BdInv'
  BY DEF SaveNoteOfGame, SaveNoteOfGm01, Dirs
<1> DEFINE there == <<game, d>>
<1>0. BdTypeOK /\ there \in Folders /\ game \in BdGames
  BY DEF BdInv, BdTypeOK, Folders
<1>1. bdpc' \in {next, "start"}
  BY DEF SaveNote, BdAt
<1>2. \E n \in {game, "part", note[there]} : note' = [note EXCEPT ![there] = n]
  BY <1>0 DEF SaveNote, BdTypeOK
<1>3. \A f \in Folders : f # there => note'[f] = note[f]
  BY <1>0, <1>2 DEF BdTypeOK
<1>4. bdodd' \subseteq BdOddThings /\ bdodd \subseteq bdodd'
  BY <1>0 DEF SaveNote, BdTypeOK, BdOddThings
<1>5. "unflushed" \notin bdodd' /\ bdpc' = next => note'[there] = game
  <2>1. next # "start"
    OBVIOUS
  <2> QED
    BY <1>0, <2>1 DEF SaveNote, BdAt, BdTypeOK
<1>6. \A e \in Dirs : AtRoot(e)' = AtRoot(e)
  BY DEF AtRoot
<1>7. BdTypeOK'
  <2>1. note' \in [Folders -> BdGames \cup {"part", NoNote}]
    BY <1>0, <1>2 DEF BdTypeOK
  <2> QED
    BY <1>0, <1>1, <1>4, <2>1 DEF BdTypeOK
<1>8. FoldersStay'
  BY DEF BdInv, FoldersStay
<1>9. TheWayHomeIsKnown'
  <2> SUFFICES ASSUME NEW e \in Dirs, NEW g \in AtRoot(e), NEW h \in AtRoot(e)
               PROVE  g = h /\ ("unflushed" \notin bdodd' => note'[<<g, e>>] = g)
    BY DEF TheWayHomeIsKnown, AtRoot
  <2>1. g = h /\ ("unflushed" \notin bdodd => note[<<g, e>>] = g)
    BY DEF BdInv, TheWayHomeIsKnown
  <2>2. <<g, e>> \in Folders /\ place[<<g, e>>] = "root"
    BY DEF AtRoot, Folders
  <2>3. <<g, e>> # there
    BY <2>2 DEF BdInv, Poised
  <2> QED
    BY <1>3, <1>4, <2>1, <2>2, <2>3
<1>10. NoteIsSaved'
  BY <1>1, <1>5 DEF NoteIsSaved
<1>11. Tidy'
  <2>1. bdodd' = {} => bdodd = {}
    BY <1>4
  <2> QED
    BY <1>1, <2>1 DEF BdInv, Tidy, AtRoot
<1>12. RunsWithItsOwn'
  BY <1>1 DEF RunsWithItsOwn
<1>13. Poised'
  BY <1>1 DEF BdInv, Poised
<1> QED
  BY <1>7, <1>8, <1>9, <1>10, <1>11, <1>12, <1>13 DEF BdInv

(* A folder is moved to the root, which is free.                           *)
LEMMA MovedInv ==
  ASSUME BdInv, NEW d \in Dirs, Moved(game, d, "root"), AtRoot(d) = {}, UNCHANGED <<game, note, bdodd>>,
         \/ /\ d = "PS3_GAME" /\ bdpc = "moveGame"
            /\ bdpc' = IF game \in WithGM01 /\ place[<<game, "PS3_GM01">>] = "home" THEN "saveGm01" ELSE "runs"
         \/ d = "PS3_GM01" /\ bdpc = "moveGm01" /\ bdpc' = "runs"
  PROVE  BdInv'
<1>0. BdTypeOK /\ game \in BdGames
  BY DEF BdInv, BdTypeOK
<1>1. /\ \A h \in BdGames, e \in Dirs : place'[<<h, e>>] = IF h = game /\ e = d THEN "root" ELSE place[<<h, e>>]
      /\ \A e \in Dirs \ {d} : AtRoot(e)' = AtRoot(e)
      /\ AtRoot(d)' = {game}
      /\ place' \in [Folders -> {"home", "root", "nowhere", "astray"}]
  BY <1>0, MovedAt
<1>2. place[<<game, d>>] = "home"
  BY DEF BdInv, Poised
<1>3. BdTypeOK'
  BY <1>0, <1>1 DEF BdTypeOK
<1>4. FoldersStay'
  <2> SUFFICES ASSUME NEW g \in BdGames, NEW e \in Dirs
               PROVE  place'[<<g, e>>] = "nowhere" <=> e \notin DirsOf(g)
    BY DEF FoldersStay, DirsOf
  <2>1. place[<<g, e>>] = "nowhere" <=> e \notin DirsOf(g)
    BY DEF BdInv, FoldersStay
  <2>2. place'[<<g, e>>] = IF g = game /\ e = d THEN "root" ELSE place[<<g, e>>]
    BY <1>1
  <2> QED
    BY <1>2, <2>1, <2>2
<1>5. TheWayHomeIsKnown'
  <2> SUFFICES ASSUME NEW e \in Dirs
               PROVE  \A g, h \in AtRoot(e)' : g = h /\ ("unflushed" \notin bdodd => note[<<g, e>>] = g)
    BY DEF TheWayHomeIsKnown
  <2>1. CASE e = d
    BY <1>1, <2>1 DEF BdInv, NoteIsSaved
  <2>2. CASE e # d
    BY <1>1, <2>2 DEF BdInv, TheWayHomeIsKnown
  <2> QED
    BY <2>1, <2>2
<1>6. "PS3_GAME" \in Dirs /\ "PS3_GM01" \in Dirs
  BY DEF Dirs
<1>7. NoteIsSaved' /\ Poised'
  BY <1>0, <1>1, <1>6 DEF NoteIsSaved, Poised
<1>8. Tidy'
  <2>1. bdodd = {} /\ bdpc' = "saveGm01" =>
          AtRoot("PS3_GAME")' = {game} /\ AtRoot("PS3_GM01")' = {} /\ game \in WithGM01
    <3>1. CASE d = "PS3_GAME" /\ bdpc = "moveGame"
      BY <1>1, <1>6, <3>1 DEF BdInv, Tidy
    <3>2. CASE d = "PS3_GM01" /\ bdpc' = "runs"
      BY <3>2
    <3> QED
      BY <3>1, <3>2
  <2>2. ASSUME bdodd = {}, NEW g \in BdGames, NEW e \in Dirs PROVE place'[<<g, e>>] # "astray"
    <3>1. place[<<g, e>>] # "astray"
      BY <2>2 DEF BdInv, Tidy
    <3>2. place'[<<g, e>>] = IF g = game /\ e = d THEN "root" ELSE place[<<g, e>>]
      BY <1>1
    <3> QED
      BY <3>1, <3>2
  <2> QED
    BY <2>1, <2>2 DEF Tidy
<1>9. RunsWithItsOwn'
  <2> SUFFICES ASSUME bdpc' = "runs", bdodd = {}, NEW e \in Dirs
               PROVE  AtRoot(e)' = IF e \in DirsOf(game) THEN {game} ELSE {}
    BY DEF RunsWithItsOwn, DirsOf
  <2>1. CASE d = "PS3_GM01"
    BY <1>1, <1>6, <2>1 DEF BdInv, Tidy, DirsOf, Dirs
  <2>2. CASE d = "PS3_GAME"
    <3>1. AtRoot("PS3_GM01") = {}
      BY <1>6, <2>2 DEF BdInv, Tidy
    <3>2. game \notin WithGM01
      <4>1. place[<<game, "PS3_GM01">>] # "root"
        BY <1>0, <3>1 DEF AtRoot
      <4>2. place[<<game, "PS3_GM01">>] # "astray"
        BY <1>0, <1>6 DEF BdInv, Tidy
      <4>3. <<game, "PS3_GM01">> \in Folders
        BY <1>0, <1>6 DEF Folders
      <4>4. game \in WithGM01 => place[<<game, "PS3_GM01">>] # "nowhere"
        BY <1>0, <1>6 DEF BdInv, FoldersStay, DirsOf
      <4>5. place[<<game, "PS3_GM01">>] \in {"home", "root", "nowhere", "astray"}
        BY <1>0, <4>3 DEF BdTypeOK
      <4> QED
        BY <2>2, <4>1, <4>2, <4>4, <4>5
    <3> QED
      BY <1>1, <1>6, <2>2, <3>1, <3>2 DEF DirsOf, Dirs
  <2> QED
    BY <2>1, <2>2 DEF Dirs
<1> QED
  BY <1>3, <1>4, <1>5, <1>7, <1>8, <1>9 DEF BdInv

\* The moves to the root of the drive keep it.
LEMMA ToRootInv == BdInv /\ (MoveGame \/ MoveGm01) => BdInv'
<1> SUFFICES ASSUME BdInv, MoveGame \/ MoveGm01 PROVE BdInv'
  OBVIOUS
<1>0. game \in BdGames /\ "PS3_GAME" \in Dirs /\ "PS3_GM01" \in Dirs
  BY DEF BdInv, BdTypeOK, Dirs
<1>1. CASE bdpc' = "start" /\ UNCHANGED place
  BY <1>0, <1>1, NothingMoves DEF MoveGame, MoveGm01
<1>2. CASE MoveGame /\ RootIsFree("PS3_GAME") /\ Moved(game, "PS3_GAME", "root")
           /\ bdpc' = IF game \in WithGM01 /\ place[<<game, "PS3_GM01">>] = "home" THEN "saveGm01" ELSE "runs"
  <2>1. bdpc = "moveGame" /\ UNCHANGED <<game, note, bdodd>>
    BY <1>2 DEF MoveGame
  <2> QED
    BY <1>0, <1>2, <2>1, MovedInv DEF RootIsFree
<1>3. CASE MoveGm01 /\ RootIsFree("PS3_GM01") /\ Moved(game, "PS3_GM01", "root") /\ bdpc' = "runs"
  <2>1. bdpc = "moveGm01" /\ UNCHANGED <<game, note, bdodd>>
    BY <1>3 DEF MoveGm01
  <2> QED
    BY <1>0, <1>3, <2>1, MovedInv DEF RootIsFree
<1> QED
  BY <1>1, <1>2, <1>3 DEF MoveGame, MoveGm01, MoveToRoot, BdAt, Moved

(* A folder is moved back, or stays at the root, which is then told.       *)
LEMMA BackInv ==
  ASSUME BdInv, NEW d \in Dirs, MoveBack(d), UNCHANGED <<game, note>>,
         \/ d = "PS3_GAME" /\ bdpc = "start" /\ bdpc' = "backGm01"
         \/ d = "PS3_GM01" /\ bdpc = "backGm01" /\ bdpc' = "idle"
  PROVE  BdInv'
<1>0. BdTypeOK /\ game \in BdGames /\ "PS3_GAME" \in Dirs /\ "PS3_GM01" \in Dirs
  BY DEF BdInv, BdTypeOK, Dirs
<1>1. /\ bdodd' \subseteq BdOddThings /\ (bdodd' = {} => bdodd = {})
      /\ "unflushed" \notin bdodd' => "unflushed" \notin bdodd
  BY <1>0 DEF MoveBack, BdTypeOK, BdOddThings
<1>2. PICK moved \in BOOLEAN, g \in BdGames, x \in {"home", "astray"} :
        IF moved
        THEN /\ g \in AtRoot(d) /\ Moved(g, d, x) /\ UNCHANGED bdodd
             /\ x = "astray" => note[<<g, d>>] = "part"
        ELSE UNCHANGED place /\ (AtRoot(d) = {} \/ bdodd' # {})
  <2>1. CASE AtRoot(d) = {} /\ UNCHANGED place
    BY <1>0, <2>1
  <2>2. CASE UNCHANGED place /\ bdodd' # {}
    BY <1>0, <2>2
  <2>3. CASE \E g \in AtRoot(d), x \in {"home", "astray"} :
               Moved(g, d, x) /\ UNCHANGED bdodd /\ (x = "astray" => note[<<g, d>>] = "part")
    <3>1. AtRoot(d) \subseteq BdGames
      BY DEF AtRoot
    <3> QED
      BY <2>3, <3>1
  <2> QED
    BY <2>1, <2>2, <2>3 DEF MoveBack, Moved
<1>3. /\ place' \in [Folders -> {"home", "root", "nowhere", "astray"}]
      /\ \A h \in BdGames, e \in Dirs :
           place'[<<h, e>>] = IF moved /\ h = g /\ e = d THEN x ELSE place[<<h, e>>]
      /\ \A e \in Dirs \ {d} : AtRoot(e)' = AtRoot(e)
      /\ AtRoot(d)' = IF moved THEN AtRoot(d) \ {g} ELSE AtRoot(d)
  <2>1. CASE moved
    BY <1>0, <1>2, <2>1, MovedAt
  <2>2. CASE ~moved
    BY <1>0, <1>2, <2>2 DEF AtRoot, BdTypeOK
  <2> QED
    BY <2>1, <2>2
<1>4. BdTypeOK'
  BY <1>0, <1>1, <1>3 DEF BdTypeOK
<1>5. FoldersStay'
  <2> SUFFICES ASSUME NEW h \in BdGames, NEW e \in Dirs
               PROVE  place'[<<h, e>>] = "nowhere" <=> e \notin DirsOf(h)
    BY DEF FoldersStay, DirsOf
  <2>1. place[<<h, e>>] = "nowhere" <=> e \notin DirsOf(h)
    BY DEF BdInv, FoldersStay
  <2>2. place'[<<h, e>>] = IF moved /\ h = g /\ e = d THEN x ELSE place[<<h, e>>]
    BY <1>3
  <2>3. moved => place[<<g, d>>] = "root"
    BY <1>2 DEF AtRoot
  <2> QED
    BY <2>1, <2>2, <2>3
<1>6. TheWayHomeIsKnown'
  <2> SUFFICES ASSUME NEW e \in Dirs, NEW h \in AtRoot(e)', NEW k \in AtRoot(e)'
               PROVE  h = k /\ ("unflushed" \notin bdodd' => note[<<h, e>>] = h)
    BY DEF TheWayHomeIsKnown
  <2>1. AtRoot(e)' \subseteq AtRoot(e)
    BY <1>3
  <2> QED
    BY <1>1, <2>1 DEF BdInv, TheWayHomeIsKnown
<1>7. NoteIsSaved' /\ Poised' /\ RunsWithItsOwn'
  BY DEF NoteIsSaved, Poised, RunsWithItsOwn
<1>8. Tidy'
  <2> SUFFICES ASSUME bdodd' = {}
               PROVE  /\ \A h \in BdGames, e \in Dirs : place'[<<h, e>>] # "astray"
                      /\ bdpc' = "idle" => \A e \in Dirs : AtRoot(e)' = {}
                      /\ bdpc' = "backGm01" => AtRoot("PS3_GAME")' = {}
    BY DEF Tidy
  <2>1. bdodd = {} /\ TheWayHomeIsKnown /\ Tidy
    BY <1>1 DEF BdInv
  <2>2. moved => x # "astray"
    BY <1>2, <2>1, BdAssumption DEF TheWayHomeIsKnown
  <2>3. AtRoot(d)' = {}
    BY <1>2, <1>3, <2>1 DEF TheWayHomeIsKnown
  <2>4. ASSUME NEW h \in BdGames, NEW e \in Dirs PROVE place'[<<h, e>>] # "astray"
    <3>1. place[<<h, e>>] # "astray"
      BY <2>1 DEF Tidy
    <3>2. place'[<<h, e>>] = IF moved /\ h = g /\ e = d THEN x ELSE place[<<h, e>>]
      BY <1>3
    <3> QED
      BY <2>2, <3>1, <3>2
  <2>5. ASSUME bdpc' = "idle", NEW e \in Dirs PROVE AtRoot(e)' = {}
    <3>1. d = "PS3_GM01" /\ AtRoot("PS3_GAME") = {}
      BY <2>1, <2>5 DEF Tidy
    <3>2. CASE e = d
      BY <2>3, <3>2
    <3>3. CASE e # d
      <4>1. e = "PS3_GAME"
        BY <3>1, <3>3 DEF Dirs
      <4> QED
        BY <1>3, <3>1, <3>3, <4>1
    <3> QED
      BY <3>2, <3>3
  <2>6. bdpc' = "backGm01" => AtRoot("PS3_GAME")' = {}
    BY <2>3
  <2> QED
    BY <2>4, <2>5, <2>6
<1> QED
  BY <1>4, <1>5, <1>6, <1>7, <1>8 DEF BdInv

(* Every step of the BD emulator keeps the invariant.                      *)
THEOREM BdInvariant == BdSpec => []BdInv
<1>1. BdInit => BdInv
  BY BdInitInv
<1>2. BdInv /\ [BdNext]_bdvars => BdInv'
  <2> SUFFICES ASSUME BdInv, [BdNext]_bdvars PROVE BdInv'
    OBVIOUS
  <2>1. CASE UNCHANGED bdvars
    <3>1. bdpc' = bdpc /\ game' = game /\ place' = place /\ note' = note /\ bdodd' = bdodd
      BY <2>1 DEF bdvars
    <3> QED
      BY <3>1 DEF BdInv, BdTypeOK, FoldersStay, DirsOf, TheWayHomeIsKnown, AtRoot, NoteIsSaved, Poised, Tidy,
         RunsWithItsOwn
  <2>2. CASE Launch \/ MeetAgain \/ Restart
    BY <2>2, LaunchInv
  <2>3. CASE SaveNoteOfGame \/ SaveNoteOfGm01
    BY <2>3, NoteInv
  <2>4. CASE MoveGame \/ MoveGm01
    BY <2>4, ToRootInv
  <2>5. CASE BackGame
    <3>1. "PS3_GAME" \in Dirs
      BY DEF Dirs
    <3> QED
      BY <2>5, <3>1, BackInv DEF BackGame, BdAt, AfterGame
  <2>6. CASE BackGm01
    <3>1. "PS3_GM01" \in Dirs
      BY DEF Dirs
    <3> QED
      BY <2>6, <3>1, BackInv DEF BackGm01, BdAt
  <2> QED
    BY <2>1, <2>2, <2>3, <2>4, <2>5, <2>6 DEF BdNext, BdStep
<1> QED
  BY <1>1, <1>2, PTL DEF BdSpec

-----------------------------------------------------------------------------
(* The installer of packages. What the system will see is the folder of    *)
(* the package that is installed, so the invariant tells how far that      *)
(* folder is (Prepared), whatever was in it before, and how a package of   *)
(* the hard disk came into a folder or a slot (Whereabouts).               *)
InFolder(folders, s, p) == folders[s] # NoEntry /\ p \in folders[s].whole
Kept(p) == p \in source \cup installed \/ \E s \in 1 .. Slots : InFolder(temp, s, p) \/ InFolder(system, s, p)

Prepared ==
  /\ pkpc \notin {"idle", "mkdir"} => temp[slot] # NoEntry
  /\ pkpc # "idle" => system[slot] = NoEntry
  /\ pkpc = "copy" => pkg \notin OnHdd
  /\ pkpc \in {"icon", "rename"} => pkg \in temp[slot].whole
  /\ ~Had(OfItsRun, pkg) =>
       /\ pkpc \in {"move", "copy", "icon", "rename"} => temp[slot].pdb = pkg
       /\ pkpc = "rename" => temp[slot].icon = "whole"

Whereabouts ==
  /\ Pkgs \ OnHdd \subseteq source
  /\ \A p \in OnHdd, s \in 1 .. Slots :
       /\ InFolder(temp, s, p) => Had({"stopped"}, p) \/ (pkpc \in {"icon", "rename"} /\ s = slot /\ p = pkg)
       /\ InFolder(system, s, p) => Had(OfItsRun \cup {"stopped"}, p) \/ system[s].pdb = p
       /\ p \in source => ~InFolder(temp, s, p) /\ ~InFolder(system, s, p)

Excused(p) == Had({"failed"}, p) \/ (Had({"dropped"}, p) /\ Had(OfItsRun \cup {"stopped"}, p))
AllKept == \A p \in Pkgs : Kept(p) \/ Excused(p)

PkInv == PkTypeOK /\ Prepared /\ Whereabouts /\ WhatIsDoneCanBeInstalled /\ AllKept

\* AllKept is the property of PkgInstall, folder by folder.
LEMMA AllKeptIs == AllKept <=> StopsLoseNoPackage
  BY DEF AllKept, StopsLoseNoPackage, Kept, InFolder, Excused

\* What a history that only grows keeps, and what it gains.
LEMMA OddGrows ==
  ASSUME NEW kinds, NEW ps \in SUBSET Pkgs, PkTypeOK, kinds \X Pkgs \subseteq PkOddThings,
         pkodd' = Odd(kinds, ps)
  PROVE  /\ pkodd \subseteq pkodd' /\ pkodd' \subseteq PkOddThings
         /\ \A k \in kinds, p \in ps : <<k, p>> \in pkodd'
  BY DEF Odd, PkTypeOK
LEMMA HadGrows == ASSUME NEW kinds, NEW p, pkodd \subseteq pkodd', Had(kinds, p) PROVE Had(kinds, p)'
  BY DEF Had
LEMMA ExcusedGrows == ASSUME NEW p, pkodd \subseteq pkodd', Excused(p) PROVE Excused(p)'
  BY HadGrows DEF Excused
LEMMA Kinds ==
  /\ {"failed"} \X Pkgs \subseteq PkOddThings /\ {"stopped"} \X Pkgs \subseteq PkOddThings
  /\ {"dropped"} \X Pkgs \subseteq PkOddThings /\ {"undescribed"} \X Pkgs \subseteq PkOddThings
  /\ {"unflushed"} \X Pkgs \subseteq PkOddThings
  BY DEF PkOddThings, OfItsRun

\* The packages before the first start satisfy the invariant.
LEMMA PkInitInv == PkInit => PkInv
<1> SUFFICES ASSUME PkInit PROVE PkInv
  OBVIOUS
<1>1. PkTypeOK
  BY PkAssumption DEF PkInit, PkTypeOK, PkOddThings
<1>2. Prepared
  BY PkAssumption DEF PkInit, Prepared
<1>3. Whereabouts
  BY DEF PkInit, Whereabouts, InFolder
<1>4. WhatIsDoneCanBeInstalled
  BY DEF PkInit, WhatIsDoneCanBeInstalled
<1>5. AllKept
  BY DEF PkInit, AllKept, Kept
<1> QED
  BY <1>1, <1>2, <1>3, <1>4, <1>5 DEF PkInv

\* What a change of the slot in hand leaves in all slots.
LEMMA ChangedAt ==
  ASSUME NEW e \in PkgEntry \cup {NoEntry}, PkTypeOK, Changed(e)
  PROVE  /\ temp' \in [1 .. Slots -> PkgEntry \cup {NoEntry}] /\ temp'[slot] = e
         /\ \A s \in 1 .. Slots : s # slot => temp'[s] = temp[s]
  BY DEF PkTypeOK, Changed

\* What is done stays so while the slots stay and the history grows.
LEMMA DoneStays ==
  ASSUME WhatIsDoneCanBeInstalled, UNCHANGED <<system, done, installed>>, pkodd \subseteq pkodd'
  PROVE  WhatIsDoneCanBeInstalled'
<1> SUFFICES ASSUME NEW p \in done
             PROVE  \/ p \in installed \/ Had(OfItsRun, p)'
                    \/ \E s \in 1 .. Slots :
                         Taken(s) /\ system[s].pdb = p /\ p \in system[s].whole /\ system[s].icon = "whole"
  BY DEF WhatIsDoneCanBeInstalled, Taken
<1> QED
  BY HadGrows DEF WhatIsDoneCanBeInstalled

\* The run goes on: towards the icon, and by a copy from other devices only.
GoesOn ==
  /\ pkpc' \in {"build", "describe", "move", "copy", "icon", "rename"} /\ pkpc # "idle"
  /\ pkpc \in {"icon", "rename"} => pkpc' \in {"icon", "rename"}
  /\ pkpc' = "copy" => pkg \notin OnHdd
\* The folder becomes e, which takes what leaves its source and drops nothing.
Takes(e) ==
  /\ source' \subseteq source /\ source \subseteq source' \cup e.whole /\ Pkgs \ OnHdd \subseteq source'
  /\ temp[slot] # NoEntry => temp[slot].whole \subseteq source' \cup e.whole
  /\ \A p \in e.whole \cap OnHdd :
       \/ temp[slot] # NoEntry /\ p \in temp[slot].whole
       \/ p = pkg /\ pkpc' \in {"icon", "rename"} /\ p \notin source'
  /\ pkpc' \in {"icon", "rename"} => pkg \in e.whole
\* Unless the history says otherwise e is described and gets a whole icon.
Describes(e) ==
  ~Had(OfItsRun, pkg)' =>
    /\ pkpc' \in {"move", "copy", "icon", "rename"} => e.pdb = pkg
    /\ pkpc' = "rename" => e.icon = "whole"

(* A step that changes the folder of the package and loses nothing of it.  *)
LEMMA FolderStep ==
  ASSUME PkInv, NEW e \in PkgEntry, Changed(e), Same, UNCHANGED <<system, done>>,
         GoesOn, Takes(e), Describes(e), pkodd \subseteq pkodd', pkodd' \subseteq PkOddThings
  PROVE  PkInv'
<1>0. PkTypeOK /\ slot \in 1 .. Slots /\ slot' = slot /\ pkg' = pkg /\ installed' = installed /\ e # NoEntry
  BY PkAssumption DEF PkInv, PkTypeOK, Same
<1>1. /\ temp' \in [1 .. Slots -> PkgEntry \cup {NoEntry}] /\ temp'[slot] = e
      /\ \A s \in 1 .. Slots : s # slot => temp'[s] = temp[s]
  BY <1>0, ChangedAt
<1>2. PkTypeOK'
  BY <1>0, <1>1 DEF PkTypeOK, GoesOn, Takes
<1>3. Prepared'
  <2>1. pkpc' # "idle" => system'[slot'] = NoEntry
    BY <1>0 DEF PkInv, Prepared, GoesOn
  <2>2. /\ pkpc' \in {"build", "describe", "move", "copy", "icon", "rename"}
        /\ pkpc' = "copy" => pkg \notin OnHdd
        /\ pkpc' \in {"icon", "rename"} => pkg \in e.whole
    BY DEF GoesOn, Takes
  <2>3. ~Had(OfItsRun, pkg)' =>
          /\ pkpc' \in {"move", "copy", "icon", "rename"} => e.pdb = pkg
          /\ pkpc' = "rename" => e.icon = "whole"
    BY DEF Describes
  <2> QED
    BY <1>0, <1>1, <2>1, <2>2, <2>3 DEF Prepared
<1>4. Whereabouts'
  <2> SUFFICES ASSUME NEW p \in OnHdd, NEW s \in 1 .. Slots
               PROVE  /\ InFolder(temp, s, p)' =>
                           Had({"stopped"}, p)' \/ (pkpc' \in {"icon", "rename"} /\ s = slot /\ p = pkg)
                      /\ InFolder(system, s, p) => Had(OfItsRun \cup {"stopped"}, p)' \/ system[s].pdb = p
                      /\ p \in source' => ~InFolder(temp, s, p)' /\ ~InFolder(system, s, p)
    BY <1>0 DEF Whereabouts, InFolder, Takes
  <2>1. /\ InFolder(temp, s, p) => Had({"stopped"}, p)' \/ (pkpc' \in {"icon", "rename"} /\ s = slot /\ p = pkg)
        /\ InFolder(system, s, p) => Had(OfItsRun \cup {"stopped"}, p)' \/ system[s].pdb = p
        /\ p \in source' => ~InFolder(temp, s, p) /\ ~InFolder(system, s, p)
    BY HadGrows DEF PkInv, Whereabouts, GoesOn, Takes
  <2>2. InFolder(temp, s, p)' =>
          InFolder(temp, s, p) \/ (s = slot /\ p = pkg /\ pkpc' \in {"icon", "rename"} /\ p \notin source')
    BY <1>0, <1>1 DEF InFolder, Takes
  <2> QED
    BY <2>1, <2>2
<1>5. WhatIsDoneCanBeInstalled'
  BY <1>0, DoneStays DEF PkInv
<1>6. AllKept'
  <2> SUFFICES ASSUME NEW p \in Pkgs, Kept(p) PROVE Kept(p)'
    BY ExcusedGrows DEF PkInv, AllKept
  <2>2. p \in e.whole => InFolder(temp, slot, p)'
    BY <1>0, <1>1 DEF InFolder
  <2>3. CASE p \in source \cup installed
    BY <1>0, <2>2, <2>3 DEF Kept, Takes
  <2>4. ASSUME NEW s \in 1 .. Slots, InFolder(system, s, p) PROVE Kept(p)'
    BY <2>4 DEF Kept, InFolder
  <2>5. ASSUME NEW s \in 1 .. Slots, InFolder(temp, s, p) PROVE Kept(p)'
    <3>1. CASE s = slot
      BY <1>0, <2>2, <2>5, <3>1 DEF Kept, InFolder, Takes
    <3>2. CASE s # slot
      BY <1>1, <2>5, <3>2 DEF Kept, InFolder
    <3> QED
      BY <3>1, <3>2
  <2> QED
    BY <2>3, <2>4, <2>5 DEF Kept
<1> QED
  BY <1>2, <1>3, <1>4, <1>5, <1>6 DEF PkInv

(* The folder is deleted, and with it what it held.                        *)
LEMMA GivesUpInv == ASSUME PkInv, GivesUp, Same, pkpc \notin {"idle", "mkdir"} PROVE PkInv'
<1>0. /\ PkTypeOK /\ slot \in 1 .. Slots /\ slot' = slot /\ pkg' = pkg /\ installed' = installed /\ done' = done
      /\ source' = source /\ system' = system /\ pkpc' = "idle"
      /\ temp[slot] \in PkgEntry /\ temp[slot].whole \in SUBSET Pkgs /\ pkodd' = Odd({"failed"}, temp[slot].whole)
  BY DEF PkInv, PkTypeOK, Same, GivesUp, PkAt, Prepared, PkgEntry
<1>1. /\ temp' \in [1 .. Slots -> PkgEntry \cup {NoEntry}] /\ temp'[slot] = NoEntry
      /\ \A s \in 1 .. Slots : s # slot => temp'[s] = temp[s]
  BY <1>0, ChangedAt DEF GivesUp
<1>2. /\ pkodd \subseteq pkodd' /\ pkodd' \subseteq PkOddThings
      /\ \A p \in temp[slot].whole : Had({"failed"}, p)'
  BY <1>0, Kinds, OddGrows DEF Had
<1>3. PkTypeOK'
  BY <1>0, <1>1, <1>2 DEF PkTypeOK
<1>4. Prepared'
  BY <1>0 DEF Prepared
<1>5. Whereabouts'
  <2> SUFFICES ASSUME NEW p \in OnHdd, NEW s \in 1 .. Slots
               PROVE  /\ InFolder(temp, s, p)' => Had({"stopped"}, p)'
                      /\ InFolder(system, s, p) => Had(OfItsRun \cup {"stopped"}, p)' \/ system[s].pdb = p
                      /\ p \in source => ~InFolder(temp, s, p)' /\ ~InFolder(system, s, p)
    BY <1>0 DEF PkInv, Whereabouts, InFolder
  <2>1. InFolder(temp, s, p)' => s # slot /\ InFolder(temp, s, p)
    BY <1>1 DEF InFolder
  <2> QED
    BY <1>2, <2>1, HadGrows DEF PkInv, Whereabouts
<1>6. WhatIsDoneCanBeInstalled'
  BY <1>0, <1>2, DoneStays DEF PkInv
<1>7. AllKept'
  <2> SUFFICES ASSUME NEW p \in Pkgs, Kept(p), ~Excused(p)' PROVE Kept(p)'
    BY <1>2, ExcusedGrows DEF PkInv, AllKept
  <2>1. p \notin temp[slot].whole
    BY <1>2 DEF Excused
  <2>2. CASE p \in source \cup installed
    BY <1>0, <2>2 DEF Kept
  <2>3. ASSUME NEW s \in 1 .. Slots, InFolder(system, s, p) PROVE Kept(p)'
    BY <1>0, <2>3 DEF Kept, InFolder
  <2>4. ASSUME NEW s \in 1 .. Slots, InFolder(temp, s, p) PROVE Kept(p)'
    <3>1. s # slot
      BY <2>1, <2>4 DEF InFolder
    <3> QED
      BY <1>1, <2>4, <3>1 DEF Kept, InFolder
  <2> QED
    BY <2>2, <2>3, <2>4 DEF Kept
<1> QED
  BY <1>3, <1>4, <1>5, <1>6, <1>7 DEF PkInv

(* The steps that build the folder.                                        *)
LEMMA MakeFolderInv == PkInv /\ MakeFolder => PkInv'
<1> SUFFICES ASSUME PkInv, MakeFolder PROVE PkInv'
  OBVIOUS
<1>1. Folder \in PkgEntry /\ (temp[slot] # NoEntry => Folder = temp[slot]) /\ (temp[slot] = NoEntry => Folder.whole = {})
  BY DEF PkInv, PkTypeOK, Folder, NewEntry, PkgEntry
<1>2. /\ Changed(Folder) /\ Same /\ UNCHANGED <<system, source, done, pkodd>> /\ pkpc = "mkdir" /\ pkpc' = "build"
      /\ pkodd \subseteq PkOddThings /\ Pkgs \ OnHdd \subseteq source
  BY DEF MakeFolder, PkAt, PkInv, PkTypeOK, Whereabouts
<1>3. GoesOn
  BY <1>2 DEF GoesOn
<1>4. Takes(Folder)
  BY <1>1, <1>2 DEF Takes
<1>5. Describes(Folder)
  BY <1>2 DEF Describes
<1> QED
  BY <1>1, <1>2, <1>3, <1>4, <1>5, FolderStep

\* The files build_pkg opens and writes keep the invariant.
LEMMA BuildInv == PkInv /\ (BuildOpens \/ BuildWrites) => PkInv'
<1> SUFFICES ASSUME PkInv, BuildOpens \/ BuildWrites PROVE PkInv'
  OBVIOUS
<1>0. /\ PkTypeOK /\ temp[slot] \in PkgEntry /\ temp[slot] # NoEntry /\ Same /\ pkpc \in {"build", "describe"} /\ pkg \in Pkgs
      /\ pkodd \subseteq PkOddThings /\ Pkgs \ OnHdd \subseteq source /\ pkg' = pkg
  BY DEF PkInv, PkTypeOK, Prepared, Whereabouts, BuildOpens, BuildWrites, Same
<1>1. ASSUME NEW d \in Pkgs \cup {"part", "none"}, Changed(Pdb(d)), UNCHANGED <<source, system, done>>,
             pkodd \subseteq pkodd', pkodd' \subseteq PkOddThings,
             \/ pkpc' = "describe"
             \/ pkpc' = "move" /\ (~Had(OfItsRun, pkg)' => d = pkg)
      PROVE  PkInv'
  <2>1. Pdb(d) \in PkgEntry /\ Pdb(d).whole = temp[slot].whole /\ Pdb(d).pdb = d
    BY <1>0 DEF PkgEntry, Pdb
  <2>2. PICK e \in PkgEntry : e = Pdb(d)
    BY <2>1
  <2>3. Changed(e) /\ e.whole = temp[slot].whole /\ e.pdb = d
    BY <1>1, <2>1, <2>2 DEF Changed
  <2>4. GoesOn
    BY <1>0, <1>1 DEF GoesOn
  <2>5. Takes(e)
    BY <1>0, <1>1, <2>3 DEF Takes
  <2>6. Describes(e)
    BY <1>0, <1>1, <2>3 DEF Describes
  <2> QED
    BY <1>0, <1>1, <2>3, <2>4, <2>5, <2>6, FolderStep
<1>2. CASE pkpc' = "describe" /\ Changed(Pdb("part")) /\ UNCHANGED <<source, system, done, pkodd>>
  BY <1>0, <1>1, <1>2
<1>3. ASSUME NEW d \in {temp[slot].pdb, "part"}, NEW k \in OfItsRun, pkpc' = "move", Changed(Pdb(d)),
             pkodd' = Odd({k}, {pkg}), UNCHANGED <<source, system, done>>
      PROVE  PkInv'
  <2>1. d \in Pkgs \cup {"part", "none"}
    BY <1>0 DEF PkgEntry
  <2>2. {k} \X Pkgs \subseteq PkOddThings /\ {pkg} \in SUBSET Pkgs
    BY <1>0 DEF PkOddThings
  <2>3. pkodd \subseteq pkodd' /\ pkodd' \subseteq PkOddThings /\ <<k, pkg>> \in pkodd'
    BY <1>0, <1>3, <2>2, OddGrows
  <2>4. Had(OfItsRun, pkg)'
    BY <1>0, <2>3 DEF Had
  <2> QED
    BY <1>1, <1>3, <2>1, <2>3, <2>4
<1>4. CASE pkpc' = "move" /\ Changed(Pdb(pkg)) /\ UNCHANGED <<source, system, done, pkodd>>
  BY <1>0, <1>1, <1>4
<1>5. CASE GivesUp
  BY <1>0, <1>5, GivesUpInv
<1>6. "undescribed" \in OfItsRun /\ "unflushed" \in OfItsRun
  BY DEF OfItsRun
<1>7. CASE BuildOpens
  BY <1>2, <1>3, <1>6, <1>7 DEF BuildOpens, PkAt
<1>8. CASE BuildWrites
  BY <1>3, <1>4, <1>5, <1>6, <1>8 DEF BuildWrites, PkAt
<1> QED
  BY <1>7, <1>8

\* The package moved or copied into its folder keeps it.
LEMMA MoveInv == PkInv /\ (MovePackage \/ CopyEnds) => PkInv'
<1> SUFFICES ASSUME PkInv, MovePackage \/ CopyEnds PROVE PkInv'
  OBVIOUS
<1>0. /\ PkTypeOK /\ temp[slot] \in PkgEntry /\ temp[slot] # NoEntry /\ Same /\ pkpc \in {"move", "copy"} /\ pkg \in Pkgs /\ pkg' = pkg
      /\ pkodd \subseteq PkOddThings /\ Pkgs \ OnHdd \subseteq source /\ source \subseteq Pkgs
      /\ pkpc = "copy" => pkg \notin OnHdd
      /\ ~Had(OfItsRun, pkg) => temp[slot].pdb = pkg
  BY DEF PkInv, PkTypeOK, Prepared, Whereabouts, MovePackage, CopyEnds, Same
<1>1. /\ With(pkg) \in PkgEntry /\ With(pkg).whole = temp[slot].whole \cup {pkg} /\ With(pkg).pdb = temp[slot].pdb
      /\ WithPart(pkg) \in PkgEntry /\ WithPart(pkg).whole = temp[slot].whole \ {pkg} /\ WithPart(pkg).pdb = temp[slot].pdb
  BY <1>0 DEF With, WithPart, PkgEntry
<1>2. UNCHANGED pkodd => (Had(OfItsRun, pkg)' <=> Had(OfItsRun, pkg))
  BY <1>0 DEF Had
<1>3. CASE /\ pkg \in OnHdd /\ pkpc' = "icon" /\ Changed(With(pkg)) /\ source' = source \ {pkg}
           /\ UNCHANGED <<system, done, pkodd>>
  <2>1. PICK e \in PkgEntry : e = With(pkg)
    BY <1>1
  <2>2. Changed(e) /\ e.whole = temp[slot].whole \cup {pkg} /\ e.pdb = temp[slot].pdb
    BY <1>1, <1>3, <2>1 DEF Changed
  <2>3. GoesOn
    BY <1>0, <1>3 DEF GoesOn
  <2>4. Takes(e)
    BY <1>0, <1>3, <2>2 DEF Takes
  <2>5. Describes(e)
    BY <1>0, <1>2, <1>3, <2>2 DEF Describes
  <2> QED
    BY <1>0, <1>3, <2>2, <2>3, <2>4, <2>5, FolderStep
<1>4. CASE pkg \notin OnHdd /\ pkpc' = "copy" /\ Changed(WithPart(pkg)) /\ UNCHANGED <<source, system, done, pkodd>>
  <2>1. PICK e \in PkgEntry : e = WithPart(pkg)
    BY <1>1
  <2>2. Changed(e) /\ e.whole = temp[slot].whole \ {pkg} /\ e.pdb = temp[slot].pdb
    BY <1>1, <1>4, <2>1 DEF Changed
  <2>3. GoesOn
    BY <1>0, <1>4 DEF GoesOn
  <2>4. Takes(e)
    BY <1>0, <1>4, <2>2 DEF Takes
  <2>5. Describes(e)
    BY <1>0, <1>2, <1>4, <2>2 DEF Describes
  <2> QED
    BY <1>0, <1>4, <2>2, <2>3, <2>4, <2>5, FolderStep
<1>5. CASE pkpc = "copy" /\ pkpc' = "icon" /\ Changed(With(pkg)) /\ UNCHANGED <<source, system, done, pkodd>>
  <2>1. PICK e \in PkgEntry : e = With(pkg)
    BY <1>1
  <2>2. Changed(e) /\ e.whole = temp[slot].whole \cup {pkg} /\ e.pdb = temp[slot].pdb
    BY <1>1, <1>5, <2>1 DEF Changed
  <2>3. GoesOn
    BY <1>0, <1>5 DEF GoesOn
  <2>4. Takes(e)
    BY <1>0, <1>5, <2>2 DEF Takes
  <2>5. Describes(e)
    BY <1>0, <1>2, <1>5, <2>2 DEF Describes
  <2> QED
    BY <1>0, <1>5, <2>2, <2>3, <2>4, <2>5, FolderStep
<1>6. CASE GivesUp
  BY <1>0, <1>6, GivesUpInv
<1> QED
  BY <1>3, <1>4, <1>5, <1>6 DEF MovePackage, CopyEnds, PkAt

\* The icon keeps it.
LEMMA SaveIconInv == PkInv /\ SaveIcon => PkInv'
<1> SUFFICES ASSUME PkInv, SaveIcon PROVE PkInv'
  OBVIOUS
<1>0. /\ PkTypeOK /\ temp[slot] \in PkgEntry /\ temp[slot] # NoEntry /\ Same /\ pkpc = "icon" /\ pkg' = pkg /\ pkg \in Pkgs
      /\ pkodd \subseteq PkOddThings /\ Pkgs \ OnHdd \subseteq source
      /\ pkg \in temp[slot].whole /\ (~Had(OfItsRun, pkg) => temp[slot].pdb = pkg)
  BY DEF PkInv, PkTypeOK, Prepared, Whereabouts, SaveIcon, Same
<1>1. ASSUME NEW i \in {"part", "whole"}, pkpc' = "rename", Changed(Icon(i)), UNCHANGED <<source, system, done>>,
             pkodd \subseteq pkodd', pkodd' \subseteq PkOddThings, i = "whole" \/ Had(OfItsRun, pkg)'
      PROVE  PkInv'
  <2>1. /\ Icon(i) \in PkgEntry /\ Icon(i).whole = temp[slot].whole /\ Icon(i).pdb = temp[slot].pdb
        /\ Icon(i).icon = i
    BY <1>0 DEF PkgEntry, Icon
  <2>2. Had(OfItsRun, pkg) => Had(OfItsRun, pkg)'
    BY <1>0, <1>1 DEF Had
  <2>3. PICK e \in PkgEntry : e = Icon(i)
    BY <2>1
  <2>4. Changed(e) /\ e.whole = temp[slot].whole /\ e.pdb = temp[slot].pdb /\ e.icon = i
    BY <1>1, <2>1, <2>3 DEF Changed
  <2>5. GoesOn
    BY <1>0, <1>1 DEF GoesOn
  <2>6. Takes(e)
    BY <1>0, <1>1, <2>4 DEF Takes
  <2>7. Describes(e)
    BY <1>0, <1>1, <2>2, <2>4 DEF Describes
  <2> QED
    BY <1>0, <1>1, <2>4, <2>5, <2>6, <2>7, FolderStep
<1>2. CASE pkpc' = "rename" /\ Changed(Icon("whole")) /\ UNCHANGED <<source, system, done, pkodd>>
  BY <1>0, <1>1, <1>2
<1>3. CASE /\ pkpc' = "rename" /\ Changed(Icon("part")) /\ pkodd' = Odd({"unflushed"}, {pkg})
           /\ UNCHANGED <<source, system, done>>
  <2>1. pkodd \subseteq pkodd' /\ pkodd' \subseteq PkOddThings /\ <<"unflushed", pkg>> \in pkodd'
    BY <1>0, <1>3, Kinds, OddGrows
  <2>2. Had(OfItsRun, pkg)'
    BY <1>0, <2>1 DEF Had, OfItsRun
  <2> QED
    BY <1>1, <1>3, <2>1, <2>2
<1>4. CASE GivesUp
  BY <1>0, <1>4, GivesUpInv
<1> QED
  BY <1>2, <1>3, <1>4 DEF SaveIcon, PkAt

(* The folder becomes the system's, as it is.                              *)
LEMMA HandOverInv == PkInv /\ HandOver => PkInv'
<1> SUFFICES ASSUME PkInv, HandOver PROVE PkInv'
  OBVIOUS
<1>0. /\ PkTypeOK /\ temp[slot] \in PkgEntry /\ Same /\ pkpc = "rename" /\ slot \in 1 .. Slots /\ pkg \in Pkgs
      /\ system[slot] = NoEntry /\ NoEntry \notin PkgEntry
  BY PkAssumption DEF PkInv, PkTypeOK, Prepared, HandOver, RenameLast
<1>1. CASE GivesUp
  BY <1>0, <1>1, GivesUpInv
<1>2. CASE /\ pkpc' = "idle" /\ Changed(NoEntry) /\ system' = [system EXCEPT ![slot] = temp[slot]]
           /\ done' = done \cup {pkg} /\ UNCHANGED <<source, pkodd>>
  <2>0. \A kinds, p : Had(kinds, p)' <=> Had(kinds, p)
    BY <1>2 DEF Had
  <2>1. /\ temp' \in [1 .. Slots -> PkgEntry \cup {NoEntry}] /\ temp'[slot] = NoEntry
        /\ \A s \in 1 .. Slots : s # slot => temp'[s] = temp[s]
    BY <1>0, <1>2, ChangedAt
  <2>2. /\ system' \in [1 .. Slots -> PkgEntry \cup {NoEntry}] /\ system'[slot] = temp[slot]
        /\ \A s \in 1 .. Slots : s # slot => system'[s] = system[s]
    BY <1>0, <1>2 DEF PkTypeOK
  <2>3. PkTypeOK'
    BY <1>0, <1>2, <2>1, <2>2 DEF PkTypeOK, Same
  <2>4. Prepared'
    BY <1>2 DEF Prepared
  <2>5. Whereabouts'
    <3> SUFFICES ASSUME NEW p \in OnHdd, NEW s \in 1 .. Slots
                 PROVE  /\ InFolder(temp, s, p)' => Had({"stopped"}, p)
                        /\ InFolder(system, s, p)' => Had(OfItsRun \cup {"stopped"}, p) \/ system'[s].pdb = p
                        /\ p \in source => ~InFolder(temp, s, p)' /\ ~InFolder(system, s, p)'
      BY <1>2, <2>0 DEF PkInv, Whereabouts
    <3>1. CASE s # slot
      BY <2>1, <2>2, <3>1 DEF PkInv, Whereabouts, InFolder
    <3>2. CASE s = slot
      <4>1. ~InFolder(temp, s, p)' /\ (InFolder(system, s, p)' => InFolder(temp, s, p))
        BY <2>1, <2>2, <3>2 DEF InFolder
      <4>2. p \in source => ~InFolder(temp, s, p)
        BY DEF PkInv, Whereabouts
      <4>3. InFolder(temp, s, p) => Had({"stopped"}, p) \/ p = pkg
        BY DEF PkInv, Whereabouts
      <4>4. Had({"stopped"}, p) => Had(OfItsRun \cup {"stopped"}, p)
        BY DEF Had
      <4>5. p = pkg => Had(OfItsRun \cup {"stopped"}, p) \/ system'[s].pdb = p
        BY <1>0, <2>2, <3>2 DEF PkInv, Prepared, Had
      <4> QED
        BY <4>1, <4>2, <4>3, <4>4, <4>5
    <3> QED
      BY <3>1, <3>2
  <2>6. WhatIsDoneCanBeInstalled'
    <3> SUFFICES ASSUME NEW p \in done \cup {pkg}
                 PROVE  \/ p \in installed \/ Had(OfItsRun, p)
                        \/ \E s \in 1 .. Slots : /\ system'[s] # NoEntry /\ system'[s].pdb = p
                                                 /\ p \in system'[s].whole /\ system'[s].icon = "whole"
      BY <1>0, <1>2, <2>0 DEF WhatIsDoneCanBeInstalled, Taken, Same
    <3>1. CASE p = pkg
      <4>1. system'[slot] # NoEntry
        BY <1>0, <2>2
      <4> QED
        BY <1>0, <2>2, <3>1, <4>1 DEF PkInv, Prepared
    <3>2. CASE p \in done
      <4>1. \/ p \in installed \/ Had(OfItsRun, p)
            \/ \E s \in 1 .. Slots : /\ system[s] # NoEntry /\ system[s].pdb = p
                                     /\ p \in system[s].whole /\ system[s].icon = "whole"
        BY <3>2 DEF PkInv, WhatIsDoneCanBeInstalled, Taken
      <4> QED
        BY <1>0, <2>2, <4>1
    <3> QED
      BY <3>1, <3>2
  <2>7. AllKept'
    <3> SUFFICES ASSUME NEW p \in Pkgs, Kept(p) PROVE Kept(p)'
      BY <1>2, ExcusedGrows DEF PkInv, AllKept
    <3>2. CASE p \in source \cup installed
      BY <1>0, <1>2, <3>2 DEF Kept, Same
    <3>3. ASSUME NEW s \in 1 .. Slots, InFolder(system, s, p) PROVE Kept(p)'
      <4>1. s # slot
        BY <1>0, <3>3 DEF InFolder
      <4> QED
        BY <2>2, <3>3, <4>1 DEF Kept, InFolder
    <3>4. ASSUME NEW s \in 1 .. Slots, InFolder(temp, s, p) PROVE Kept(p)'
      <4>1. CASE s = slot
        <5>1. InFolder(system, s, p)'
          BY <2>2, <3>4, <4>1 DEF InFolder
        <5> QED
          BY <5>1 DEF Kept
      <4>2. CASE s # slot
        BY <2>1, <3>4, <4>2 DEF Kept, InFolder
      <4> QED
        BY <4>1, <4>2
    <3> QED
      BY <3>2, <3>3, <3>4 DEF Kept
  <2> QED
    BY <2>3, <2>4, <2>5, <2>6, <2>7 DEF PkInv
<1> QED
  BY <1>1, <1>2 DEF HandOver, PkAt

(* The system empties a slot and has the package it was described as.      *)
LEMMA SystemInv == PkInv /\ SystemInstalls => PkInv'
<1> SUFFICES ASSUME PkInv, pkpc = "idle", UNCHANGED <<pkpc, pkg, slot, source, temp, done>>,
                    NEW r \in 1 .. Slots, system[r] # NoEntry,
                    system' = [system EXCEPT ![r] = NoEntry],
                    installed' = installed \cup (system[r].whole \cap {system[r].pdb}),
                    pkodd' = Odd({"dropped"}, system[r].whole \ {system[r].pdb})
             PROVE  PkInv'
  BY DEF SystemInstalls, Taken
<1>0. PkTypeOK /\ system[r] \in PkgEntry /\ system[r].whole \in SUBSET Pkgs
  BY DEF PkInv, PkTypeOK, PkgEntry
<1>1. /\ system' \in [1 .. Slots -> PkgEntry \cup {NoEntry}] /\ system'[r] = NoEntry
      /\ \A s \in 1 .. Slots : s # r => system'[s] = system[s]
  BY <1>0 DEF PkTypeOK
<1>2. installed' \subseteq Pkgs /\ installed \subseteq installed'
  BY <1>0 DEF PkTypeOK
<1>3. /\ pkodd \subseteq pkodd' /\ pkodd' \subseteq PkOddThings
      /\ \A p \in system[r].whole \ {system[r].pdb} : Had({"dropped"}, p)'
  <2>1. system[r].whole \ {system[r].pdb} \in SUBSET Pkgs
    BY <1>0
  <2>2. {"dropped"} \X Pkgs \subseteq PkOddThings
    BY Kinds
  <2>3. /\ pkodd \subseteq pkodd' /\ pkodd' \subseteq PkOddThings
        /\ \A k \in {"dropped"}, p \in system[r].whole \ {system[r].pdb} : <<k, p>> \in pkodd'
    BY <1>0, <2>1, <2>2, OddGrows
  <2> QED
    BY <2>3 DEF Had
<1>4. PkTypeOK'
  BY <1>0, <1>1, <1>2, <1>3 DEF PkTypeOK
<1>5. Prepared'
  BY DEF Prepared
<1>6. Whereabouts'
  <2> SUFFICES ASSUME NEW p \in OnHdd, NEW s \in 1 .. Slots
               PROVE  /\ InFolder(temp, s, p) => Had({"stopped"}, p)'
                      /\ InFolder(system, s, p)' => Had(OfItsRun \cup {"stopped"}, p)' \/ system'[s].pdb = p
                      /\ p \in source => ~InFolder(temp, s, p) /\ ~InFolder(system, s, p)'
    BY DEF PkInv, Whereabouts, InFolder
  <2>1. InFolder(system, s, p)' => InFolder(system, s, p) /\ system'[s] = system[s]
    BY <1>1 DEF InFolder
  <2> QED
    BY <1>3, <2>1, HadGrows DEF PkInv, Whereabouts
<1>7. WhatIsDoneCanBeInstalled'
  <2> SUFFICES ASSUME NEW p \in done, p \notin installed', ~Had(OfItsRun, p)'
               PROVE  \E s \in 1 .. Slots : /\ system'[s] # NoEntry /\ system'[s].pdb = p
                                            /\ p \in system'[s].whole /\ system'[s].icon = "whole"
    BY DEF WhatIsDoneCanBeInstalled, Taken
  <2>1. ~Had(OfItsRun, p) /\ p \notin installed
    BY <1>2, <1>3, HadGrows
  <2>2. PICK s \in 1 .. Slots : /\ system[s] # NoEntry /\ system[s].pdb = p
                                /\ p \in system[s].whole /\ system[s].icon = "whole"
    BY <2>1 DEF PkInv, WhatIsDoneCanBeInstalled, Taken
  <2>3. s # r
    BY <2>2
  <2> QED
    BY <1>1, <2>2, <2>3
<1>8. AllKept'
  <2> SUFFICES ASSUME NEW p \in Pkgs, Kept(p), ~Excused(p)' PROVE Kept(p)'
    BY <1>3, ExcusedGrows DEF PkInv, AllKept
  <2>1. CASE p \in source \cup installed
    BY <1>2, <2>1 DEF Kept
  <2>2. ASSUME NEW s \in 1 .. Slots, InFolder(temp, s, p) PROVE Kept(p)'
    BY <2>2 DEF Kept, InFolder
  <2>3. ASSUME NEW s \in 1 .. Slots, InFolder(system, s, p) PROVE Kept(p)'
    <3>1. CASE s # r
      BY <1>1, <2>3, <3>1 DEF Kept, InFolder
    <3>2. CASE p = system[r].pdb /\ s = r
      BY <2>3, <3>2 DEF Kept, InFolder
    <3>3. CASE p # system[r].pdb /\ s = r
      <4>1. Had({"dropped"}, p)'
        BY <1>3, <2>3, <3>3 DEF InFolder
      <4>2. CASE p \in OnHdd
        <5>1. Had(OfItsRun \cup {"stopped"}, p)
          BY <2>3, <3>3, <4>2 DEF PkInv, Whereabouts
        <5> QED
          BY <1>3, <4>1, <5>1, HadGrows DEF Excused
      <4>3. CASE p \notin OnHdd
        BY <4>3 DEF PkInv, Whereabouts, Kept
      <4> QED
        BY <4>2, <4>3
    <3> QED
      BY <3>1, <3>2, <3>3
  <2> QED
    BY <2>1, <2>2, <2>3 DEF Kept
<1> QED
  BY <1>4, <1>5, <1>6, <1>7, <1>8 DEF PkInv

(* An installation begins: what went wrong in the last one is forgotten,   *)
(* and the package is where the user has it and nowhere else.              *)
LEMMA FindSlotInv == PkInv /\ FindSlot => PkInv'
<1> SUFFICES ASSUME PkInv, FindSlot PROVE PkInv'
  OBVIOUS
<1>0. /\ PkTypeOK /\ UNCHANGED <<source, temp, system, installed>> /\ pkpc = "idle"
      /\ pkpc' = "mkdir" /\ system[slot'] = NoEntry
      /\ slot' \in 1 .. Slots /\ pkg' \in source /\ pkg' \in Pkgs
      /\ done' = done \ {pkg'} /\ pkodd' = pkodd \ (OfItsRun \X {pkg'})
  BY DEF PkInv, PkTypeOK, FindSlot, FreeSlots, Taken, PkAt
<1>1. PkTypeOK'
  BY <1>0 DEF PkTypeOK
<1>2. Prepared'
  BY <1>0 DEF Prepared
<1>3. ASSUME NEW kinds, NEW p, p # pkg' PROVE Had(kinds, p)' <=> Had(kinds, p)
  BY <1>0, <1>3 DEF Had
<1>4. ASSUME NEW p PROVE Had({"stopped"}, p)' <=> Had({"stopped"}, p)
  BY <1>0 DEF Had, OfItsRun
<1>5. Whereabouts'
  <2> SUFFICES ASSUME NEW p \in OnHdd, NEW s \in 1 .. Slots
               PROVE  /\ InFolder(temp, s, p) => Had({"stopped"}, p)'
                      /\ InFolder(system, s, p) => Had(OfItsRun \cup {"stopped"}, p)' \/ system[s].pdb = p
                      /\ p \in source => ~InFolder(temp, s, p) /\ ~InFolder(system, s, p)
    BY <1>0 DEF PkInv, Whereabouts, InFolder
  <2>1. CASE p = pkg'
    BY <1>0, <2>1 DEF PkInv, Whereabouts
  <2>2. CASE p # pkg'
    BY <1>0, <1>3, <2>2 DEF PkInv, Whereabouts
  <2> QED
    BY <2>1, <2>2
<1>6. WhatIsDoneCanBeInstalled'
  <2> SUFFICES ASSUME NEW p \in done, p # pkg'
               PROVE  \/ p \in installed \/ Had(OfItsRun, p)'
                      \/ \E s \in 1 .. Slots :
                           Taken(s) /\ system[s].pdb = p /\ p \in system[s].whole /\ system[s].icon = "whole"
    BY <1>0 DEF WhatIsDoneCanBeInstalled, Taken
  <2> QED
    BY <1>3 DEF PkInv, WhatIsDoneCanBeInstalled
<1>7. AllKept'
  <2> SUFFICES ASSUME NEW p \in Pkgs PROVE Kept(p)' \/ Excused(p)'
    BY DEF AllKept
  <2>1. Kept(p) => Kept(p)'
    BY <1>0 DEF Kept, InFolder
  <2>2. p = pkg' => Kept(p)
    BY <1>0 DEF Kept
  <2>3. p # pkg' => (Excused(p) => Excused(p)')
    BY <1>3 DEF Excused
  <2> QED
    BY <2>1, <2>2, <2>3 DEF PkInv, AllKept
<1> QED
  BY <1>1, <1>2, <1>5, <1>6, <1>7 DEF PkInv

(* A stop leaves every folder and slot, and notes what was in hand.        *)
LEMMA PkStopsInv == PkInv /\ PkStops => PkInv'
<1> SUFFICES ASSUME PkInv, PkStops PROVE PkInv'
  OBVIOUS
<1>0. /\ PkTypeOK /\ UNCHANGED <<pkg, slot, source, temp, system, installed, done>> /\ pkpc # "idle"
      /\ pkpc' = "idle" /\ pkodd' = Odd({"stopped"}, InUse) /\ slot \in 1 .. Slots
  BY DEF PkInv, PkTypeOK, PkStops, PkAt
<1>1. InUse \in SUBSET Pkgs
  BY <1>0 DEF InUse, PkTypeOK, PkgEntry
<1>2. /\ pkodd \subseteq pkodd' /\ pkodd' \subseteq PkOddThings
      /\ \A p \in InUse : Had({"stopped"}, p)'
  BY <1>0, <1>1, Kinds, OddGrows DEF Had
<1>3. PkTypeOK'
  BY <1>0, <1>2 DEF PkTypeOK
<1>4. Prepared'
  BY <1>0 DEF Prepared
<1>5. Whereabouts'
  <2> SUFFICES ASSUME NEW p \in OnHdd, NEW s \in 1 .. Slots
               PROVE  /\ InFolder(temp, s, p) => Had({"stopped"}, p)'
                      /\ InFolder(system, s, p) => Had(OfItsRun \cup {"stopped"}, p)' \/ system[s].pdb = p
                      /\ p \in source => ~InFolder(temp, s, p) /\ ~InFolder(system, s, p)
    BY <1>0 DEF PkInv, Whereabouts, InFolder
  <2>1. InFolder(temp, slot, p) => Had({"stopped"}, p)'
    BY <1>0, <1>2 DEF InUse, InFolder
  <2> QED
    BY <1>2, <2>1, HadGrows DEF PkInv, Whereabouts
<1>6. WhatIsDoneCanBeInstalled'
  BY <1>0, <1>2, DoneStays DEF PkInv
<1>7. AllKept'
  <2> SUFFICES ASSUME NEW p \in Pkgs, Kept(p) PROVE Kept(p)'
    BY <1>2, ExcusedGrows DEF PkInv, AllKept
  <2> QED
    BY <1>0 DEF Kept, InFolder
<1> QED
  BY <1>3, <1>4, <1>5, <1>6, <1>7 DEF PkInv

(* Every step of the installer keeps the invariant.                        *)
THEOREM PkInvariant == PkSpec => []PkInv
<1>1. PkInit => PkInv
  BY PkInitInv
<1>2. PkInv /\ [PkNext]_pkvars => PkInv'
  <2> SUFFICES ASSUME PkInv, [PkNext]_pkvars PROVE PkInv'
    OBVIOUS
  <2>1. CASE UNCHANGED pkvars
    <3>1. UNCHANGED <<pkpc, pkg, slot, source, temp, system, installed, done, pkodd>>
      BY <2>1 DEF pkvars
    <3>2. PkTypeOK' /\ Prepared' /\ WhatIsDoneCanBeInstalled'
      BY <3>1 DEF PkInv, PkTypeOK, Prepared, WhatIsDoneCanBeInstalled, Taken, Had
    <3>3. AllKept' /\ Whereabouts'
      BY <3>1 DEF PkInv, AllKept, Kept, InFolder, Excused, Had, Whereabouts
    <3> QED
      BY <3>2, <3>3 DEF PkInv
  <2>2. CASE PkNext
    BY <2>2, FindSlotInv, PkStopsInv, MakeFolderInv, BuildInv, MoveInv, SaveIconInv, HandOverInv, SystemInv
       DEF PkNext, PkStep
  <2> QED
    BY <2>1, <2>2
<1> QED
  BY <1>1, <1>2, PTL DEF PkSpec

-----------------------------------------------------------------------------
(* The composition behaves as each of its parts: what the installer does   *)
(* is nothing to the BD emulator and the reverse, and a stop is one of     *)
(* either or leaves it as it is.                                           *)
THEOREM DiskIsBd == DiskSpec => BdSpec
<1>1. DiskInit => BdInit
  BY DEF DiskInit
<1>2. [DiskNext]_diskvars => [BdNext]_bdvars
  <2>1. ASSUME Stop PROVE Restart \/ MeetAgain
    BY <2>1 DEF Stop, Restart, MeetAgain, BdAt
  <2>2. ASSUME BdStep \/ UNCHANGED bdvars \/ Stop PROVE [BdNext]_bdvars
    BY <2>1, <2>2 DEF BdNext, BdStep
  <2> QED
    BY <2>2 DEF DiskNext, diskvars
<1> QED
  BY <1>1, <1>2, PTL DEF DiskSpec, BdSpec

\* Every behaviour of the disk is one of the package installer alone, so
\* that what is proved of install_pkg holds next to the moves of main.c.
THEOREM DiskIsPk == DiskSpec => PkSpec
<1>1. DiskInit => PkInit
  BY DEF DiskInit
<1>2. [DiskNext]_diskvars => [PkNext]_pkvars
  <2>1. ASSUME Stop PROVE PkStops \/ UNCHANGED pkvars
    BY <2>1 DEF Stop, PkStops, PkAt, pkvars, InUse, Odd
  <2>2. ASSUME PkStep \/ UNCHANGED pkvars \/ Stop PROVE [PkNext]_pkvars
    BY <2>1, <2>2 DEF PkNext
  <2> QED
    BY <2>2 DEF DiskNext, diskvars
<1> QED
  BY <1>1, <1>2, PTL DEF DiskSpec, PkSpec

(* No two games' folders of one name are at the root, and each holds the   *)
(* note that brings it home, unless the note was cut unseen.               *)
THEOREM DiskWayHome == DiskSpec => []TheWayHomeIsKnown
<1>1. BdInv => TheWayHomeIsKnown
  BY DEF BdInv
<1> QED
  BY <1>1, DiskIsBd, BdInvariant, PTL

(* A game that runs finds its own folders and no other's.                  *)
THEOREM DiskRuns == DiskSpec => []RunsWithItsOwn
<1>1. BdInv => RunsWithItsOwn
  BY DEF BdInv
<1> QED
  BY <1>1, DiskIsBd, BdInvariant, PTL

(* What install_pkg said is done is installed or can be, unless a file of  *)
(* its own run did not open or was cut unseen.                             *)
THEOREM DiskEntries == DiskSpec => []WhatIsDoneCanBeInstalled
<1>1. PkInv => WhatIsDoneCanBeInstalled
  BY DEF PkInv
<1> QED
  BY <1>1, DiskIsPk, PkInvariant, PTL

(* A package is lost only with a folder deleted after a failed call, or    *)
(* from a slot described as another's, where only a stop or a description  *)
(* gone wrong unseen can have put it.                                      *)
THEOREM DiskPackages == DiskSpec => []StopsLoseNoPackage
<1>1. PkInv => StopsLoseNoPackage
  BY AllKeptIs DEF PkInv
<1> QED
  BY <1>1, DiskIsPk, PkInvariant, PTL

-----------------------------------------------------------------------------
(* The copy of one file.                                                   *)
(* How far the output reaches.                                             *)
Reach == EndOf(Len(dst))

Running == {"loop", "read", "startWrite", "writeEnd"}

(* A read in flight, or done and not yet handed on, is the next piece of   *)
(* the file and goes to the half the loop calls alternate; when it is done *)
(* that half holds it.                                                     *)
ReadIsNext ==
  /\ reading \/ readed >= 0 =>
       /\ t_read.fd /\ t_read.half = alternate /\ t_read.offset = pos
       /\ t_read.size = MinOf(size - pos, Chunk)
  /\ reading => readed = InFlight
  /\ readed >= 0 => mem[t_read.half].from = t_read.offset

(* A write in flight takes the other half, which still holds the piece     *)
(* that comes next in the output.                                          *)
WriteIsNext ==
  writing =>
    /\ writed = InFlight
    /\ t_write.half = 1 - alternate
    /\ mem[t_write.half].from = t_write.offset
    /\ t_write.offset = Reach

(* The counter writed and the two positions: what is read is either        *)
(* written, or being written, or failed.                                   *)
Positions ==
  /\ writed = Idle => Reach = pos /\ pos2 = pos
  /\ writed # Idle => t_write.offset + t_write.size = pos
  /\ writed >= 0 => Reach = pos
  /\ writed # Idle /\ writed < 0 => pos2 < size

(* What a place in the program says of the result.                         *)
Places ==
  /\ pc = "setup" =>
       /\ ~reading /\ ~writing /\ readed = Idle /\ writed = Idle
       /\ ret = 0 /\ held = {} /\ ~t_read.fd /\ ~t_write.fd
  /\ pc \in Running => ret = 0
  /\ pc \in {"read", "startWrite", "writeEnd"} => pos2 < size
  /\ pc = "error" => ret # 0
  /\ pc = "done" => ~writing
  /\ pc = "done" /\ reading => pos = size
  /\ Success => pos2 = size /\ Reach = size

IInv == CaTypeOK /\ CopyIsInOrder /\ ReadIsNext /\ WriteIsNext /\ Positions /\ Places

(* What copy_async holds, and that a descriptor is set by the first        *)
(* request.                                                                *)
AllThings == IF is_ntfs THEN Things \ {"aio1"} ELSE Things
HeldInv ==
  /\ pc \in Running \cup {"error"} => held = AllThings
  /\ pos > 0 => t_read.fd /\ t_write.fd

(* A read never goes to the half that is being written.                    *)
HalvesApart == reading /\ writing => t_read.half # t_write.half

-----------------------------------------------------------------------------
(* What holds of the constants and of a request.                           *)
LEMMA Facts ==
  /\ Chunk \in Nat /\ Chunk >= 555 /\ Sizes \subseteq Nat
  /\ Idle = -666 /\ InFlight = -555 /\ Failed = -1
BY CopyAsyncAssumption DEF Idle, InFlight, Failed

LEMMA CounterFacts ==
  /\ \A x \in Counters : x \in Int
  /\ {Idle, InFlight, Failed} \subseteq Counters
  /\ \A n \in 0 .. Chunk : n \in Counters /\ InFlight + n \in Counters
BY Facts DEF Counters

(* The type invariant in the form in which the steps use it.               *)
LEMMA Fields ==
  ASSUME CaTypeOK
  PROVE  /\ size \in Nat /\ pos \in Nat /\ pos <= size /\ pos2 \in Nat /\ pos2 <= pos
         /\ readed \in Int /\ writed \in Int /\ alternate \in {0, 1}
         /\ t_read \in Requests /\ t_read.half \in {0, 1} /\ t_read.offset \in Nat
         /\ t_read.size \in Nat /\ t_read.size <= Chunk
         /\ t_write \in Requests /\ t_write.half \in {0, 1} /\ t_write.offset \in Nat
         /\ t_write.size \in Nat /\ t_write.size <= Chunk
         /\ reading \in BOOLEAN /\ writing \in BOOLEAN
         /\ \A h \in {0, 1} : mem[h].from \in Nat
<1>1. size \in Nat
  BY Facts DEF CaTypeOK
<1>2. pos \in 0 .. size /\ pos2 \in 0 .. pos /\ alternate \in {0, 1}
  BY DEF CaTypeOK
<1>3. readed \in Counters /\ writed \in Counters
  BY DEF CaTypeOK
<1>4. t_read \in Requests /\ t_write \in Requests /\ mem \in [{0, 1} -> Chunks]
  BY DEF CaTypeOK
<1>5. reading \in BOOLEAN /\ writing \in BOOLEAN
  BY DEF CaTypeOK
<1>6. \A q \in Requests : /\ q.half \in {0, 1} /\ q.offset \in Nat
                          /\ q.size \in Nat /\ q.size <= Chunk
  BY Facts DEF Requests
<1>7. \A c \in Chunks : c.from \in Nat
  BY DEF Chunks
<1>8. pos \in Nat /\ pos <= size /\ pos2 \in Nat /\ pos2 <= pos
  BY <1>1, <1>2
<1> QED
  BY <1>1, <1>2, <1>3, <1>4, <1>5, <1>6, <1>7, <1>8, CounterFacts

LEMMA ReadRequestType ==
  ASSUME CaTypeOK
  PROVE  /\ ReadRequest \in Requests
         /\ ReadRequest.half = alternate /\ ReadRequest.offset = pos
         /\ ReadRequest.size = MinOf(size - pos, Chunk)
         /\ ReadRequest.fd
<1>1. MinOf(size - pos, Chunk) \in 0 .. Chunk
  BY Facts, Fields DEF MinOf
<1> QED
  BY <1>1, Fields DEF ReadRequest, Requests

(* What a finished read leaves in the two halves.                          *)
LEMMA HoldsType ==
  ASSUME CaTypeOK, NEW request \in Requests
  PROVE  /\ Holds(request) \in [{0, 1} -> Chunks]
         /\ Holds(request)[request.half].from = request.offset
         /\ \A h \in {0, 1} : h # request.half => Holds(request)[h] = mem[h]
<1>1. mem \in [{0, 1} -> Chunks]
  BY DEF CaTypeOK
<1> QED
  BY <1>1 DEF Holds, Requests, Chunks

(* Another chunk at the end of the output.                                 *)
OutputChunks == [at : Nat, from : Nat, n : Nat]

LEMMA AppendChunk ==
  ASSUME CaTypeOK, CopyIsInOrder, NEW c \in OutputChunks,
         c.at = Reach, c.from = c.at, dst' = Append(dst, c)
  PROVE  dst' \in Seq(OutputChunks) /\ CopyIsInOrder' /\ Reach' = c.at + c.n
<1>1. dst \in Seq(OutputChunks)
  BY DEF CaTypeOK, OutputChunks
<1>2. /\ Len(dst) \in Nat /\ dst' \in Seq(OutputChunks)
      /\ Len(dst') = Len(dst) + 1
      /\ \A i \in 1 .. Len(dst) : dst'[i] = dst[i]
      /\ dst'[Len(dst) + 1] = c
  BY <1>1, AppendProperties
<1>3. Reach' = c.at + c.n
  BY <1>2 DEF Reach, EndOf
<1>4. ASSUME NEW k \in 1 .. Len(dst')
      PROVE  dst'[k].at = EndOf(k - 1)' /\ dst'[k].from = dst'[k].at
  <2>1. EndOf(k - 1)' = EndOf(k - 1)
    <3>1. CASE k = 1
      BY <3>1 DEF EndOf
    <3>2. CASE k # 1
      <4>1. k - 1 \in 1 .. Len(dst)
        BY <1>2, <3>2
      <4> QED
        BY <1>2, <4>1, <3>2 DEF EndOf
    <3> QED
      BY <3>1, <3>2
  <2>2. CASE k = Len(dst) + 1
    BY <1>2, <2>1, <2>2 DEF Reach
  <2>3. CASE k \in 1 .. Len(dst)
    BY <1>2, <2>1, <2>3 DEF CopyIsInOrder
  <2> QED
    BY <1>2, <2>2, <2>3
<1> QED
  BY <1>2, <1>3, <1>4 DEF CopyIsInOrder

LEMMA InitIInv == Init => IInv
<1> SUFFICES ASSUME Init PROVE IInv
  OBVIOUS
<1>1. dst \in Seq(OutputChunks) /\ Len(dst) = 0
  BY EmptySeq DEF Init
<1>2. CaTypeOK
  <2>1. NoRequest \in Requests /\ [from |-> 0, n |-> 0] \in Chunks
    BY Facts DEF NoRequest, Requests, Chunks
  <2>2. size \in Nat /\ readed \in Counters /\ writed \in Counters
    BY CounterFacts, Facts DEF Init
  <2>3. t_read \in Requests /\ t_write \in Requests /\ mem \in [{0, 1} -> Chunks]
    BY <2>1 DEF Init
  <2>4. pos \in 0 .. size /\ pos2 \in 0 .. pos
    BY <2>2 DEF Init
  <2>5. /\ size \in Sizes /\ is_ntfs \in BOOLEAN /\ pc = "setup" /\ ret = 0
        /\ alternate = 0 /\ reading = FALSE /\ writing = FALSE /\ held = {}
    BY DEF Init
  <2> QED
    BY <1>1, <2>2, <2>3, <2>4, <2>5 DEF CaTypeOK, OutputChunks
<1>3. CopyIsInOrder /\ Reach = 0
  BY <1>1 DEF CopyIsInOrder, Reach, EndOf
<1>4. ReadIsNext /\ WriteIsNext /\ Positions /\ Places
  BY <1>3, Facts DEF Init, ReadIsNext, WriteIsNext, Positions, Places, Success,
     Running, NoRequest
<1> QED
  BY <1>2, <1>3, <1>4 DEF IInv

-----------------------------------------------------------------------------
(* The steps that leave dst alone keep the order of the output.            *)
LEMMA SameOutput ==
  ASSUME UNCHANGED dst
  PROVE  (CopyIsInOrder => CopyIsInOrder') /\ Reach' = Reach
BY DEF CopyIsInOrder, Reach, EndOf

(* The type invariant in parts, of which a step touches few.               *)
ControlType ==
  /\ is_ntfs \in BOOLEAN /\ alternate \in {0, 1}
  /\ pc \in {"setup", "loop", "read", "startWrite", "writeEnd", "error", "done"}
  /\ ret \in {0, -1, -2, -3, -4, -5, -6, -7, -666}
  /\ held \subseteq Things
FlagType == reading \in BOOLEAN /\ writing \in BOOLEAN
CounterType == readed \in Counters /\ writed \in Counters
PositionType == size \in Sizes /\ pos \in 0 .. size /\ pos2 \in 0 .. pos
BufferType == mem \in [{0, 1} -> Chunks] /\ t_read \in Requests /\ t_write \in Requests
OutputType == dst \in Seq(OutputChunks)

LEMMA TypeParts ==
  CaTypeOK <=> /\ ControlType /\ FlagType /\ CounterType
               /\ PositionType /\ BufferType /\ OutputType
BY
   DEF CaTypeOK, ControlType, FlagType, CounterType, PositionType, BufferType,
   OutputType,
   OutputChunks

LEMMA TypePartsNext ==
  CaTypeOK' <=> /\ ControlType' /\ FlagType' /\ CounterType'
                /\ PositionType' /\ BufferType' /\ OutputType'
BY
   DEF CaTypeOK, ControlType, FlagType, CounterType, PositionType, BufferType,
   OutputType,
   OutputChunks

(* The part of the invariant that is not about types or about dst.         *)
Rest == ReadIsNext /\ WriteIsNext /\ Positions /\ Places

LEMMA MainKeeps == IInv /\ Main => IInv'
<1> SUFFICES ASSUME IInv, Main PROVE IInv'
  OBVIOUS
<1>0. UNCHANGED dst
  BY DEF Main, Setup, LoopEnds, LoopGoesOn, UserCancels, StartRead, ReadNtfs,
     NoRead, ReadFailed, StartWrite, NoWrite, WriteFailed, WriteDone,
     StillWriting, Error
<1>1. CopyIsInOrder' /\ Reach' = Reach
  BY <1>0, SameOutput DEF IInv
<1>2. CaTypeOK /\ Rest
  BY DEF IInv, Rest
<1>types. ControlType /\ FlagType /\ CounterType /\ PositionType /\ BufferType /\ OutputType'
  BY <1>0, <1>2, TypeParts DEF OutputType
<1>3. CASE Setup
  <2>1. CaTypeOK'
    <3>1. ControlType'
      BY <1>3, <1>types DEF ControlType, Setup, SetupFails, input, Things
    <3>flags. FlagType'
      BY <1>3, <1>types, Zenon DEF FlagType, Setup
    <3>2. CounterType'
      BY <1>3, <1>types, CounterFacts DEF CounterType, Setup, input
    <3>3. PositionType'
      BY <1>3, <1>types, <1>2, Facts, Fields DEF PositionType, Setup, input
    <3>4. BufferType'
      BY <1>3, <1>types, <1>2 DEF BufferType, Setup, input
    <3> QED
      BY <1>types, <3>1, <3>flags, <3>2, <3>3, <3>4, TypePartsNext
  <2>2. Rest'
    BY <1>3, <1>1, <1>2, Facts, Fields DEF Rest, ReadIsNext, WriteIsNext,
       Positions, Places, Success, Running, Setup, SetupFails, input
  <2> QED
    BY <1>1, <2>1, <2>2 DEF IInv, Rest
<1>4. CASE LoopEnds
  <2>1. CaTypeOK'
    BY <1>4, <1>2, Facts, CounterFacts, Fields
       DEF CaTypeOK, LoopEnds, GiveBack, AllWritten, input, Things, Closed, GiveBack
  <2>2. Rest'
    BY <1>4, <1>1, <1>2, Facts, Fields DEF Rest, ReadIsNext, WriteIsNext,
       Positions, Places, Success, Running, LoopEnds, GiveBack, AllWritten, input
  <2> QED
    BY <1>1, <2>1, <2>2 DEF IInv, Rest
<1>5. CASE LoopGoesOn
  <2>1. CaTypeOK'
    BY <1>5, <1>2, Facts, CounterFacts, Fields
       DEF CaTypeOK, LoopGoesOn, AllWritten, input
  <2>2. Rest'
    BY <1>5, <1>1, <1>2, Facts, Fields DEF Rest, ReadIsNext, WriteIsNext,
       Positions, Places, Success, Running, LoopGoesOn, AllWritten, input
  <2> QED
    BY <1>1, <2>1, <2>2 DEF IInv, Rest
<1>6. CASE NoRead
  <2>1. CaTypeOK'
    BY <1>6, <1>2, Facts, CounterFacts, Fields DEF CaTypeOK, NoRead, input
  <2>2. Rest'
    BY <1>6, <1>1, <1>2, Facts, Fields DEF Rest, ReadIsNext, WriteIsNext,
       Positions, Places, Success, Running, NoRead, input
  <2> QED
    BY <1>1, <2>1, <2>2 DEF IInv, Rest
<1>7. CASE NoWrite
  <2>1. CaTypeOK'
    BY <1>7, <1>2, Facts, CounterFacts, Fields DEF CaTypeOK, NoWrite, input
  <2>2. Rest'
    BY <1>7, <1>1, <1>2, Facts, Fields DEF Rest, ReadIsNext, WriteIsNext,
       Positions, Places, Success, Running, NoWrite, input
  <2> QED
    BY <1>1, <2>1, <2>2 DEF IInv, Rest
<1>8. CASE StillWriting
  <2>1. CaTypeOK'
    BY <1>8, <1>2, Facts, CounterFacts, Fields DEF CaTypeOK, StillWriting, input
  <2>2. Rest'
    BY <1>8, <1>1, <1>2, Facts, Fields DEF Rest, ReadIsNext, WriteIsNext,
       Positions, Places, Success, Running, StillWriting, input
  <2> QED
    BY <1>1, <2>1, <2>2 DEF IInv, Rest
<1>9. CASE UserCancels
  <2>1. CaTypeOK'
    BY <1>9, <1>2, Facts, CounterFacts, Fields
       DEF CaTypeOK, UserCancels, AllWritten, GotoError, input
  <2>2. Rest'
    BY <1>9, <1>1, <1>2, Facts, Fields DEF Rest, ReadIsNext, WriteIsNext,
       Positions, Places, Success, Running, UserCancels, AllWritten, GotoError, input
  <2> QED
    BY <1>1, <2>1, <2>2 DEF IInv, Rest
<1>10. CASE ReadFailed
  <2>1. CaTypeOK'
    BY <1>10, <1>2, Facts, CounterFacts, Fields
       DEF CaTypeOK, ReadFailed, GotoError, input
  <2>2. Rest'
    BY <1>10, <1>1, <1>2, Facts, Fields DEF Rest, ReadIsNext, WriteIsNext,
       Positions, Places, Success, Running, ReadFailed, GotoError, input
  <2> QED
    BY <1>1, <2>1, <2>2 DEF IInv, Rest
<1>11. CASE WriteFailed
  <2>1. CaTypeOK'
    BY <1>11, <1>2, Facts, CounterFacts, Fields
       DEF CaTypeOK, WriteFailed, GotoError, input
  <2>2. Rest'
    BY <1>11, <1>1, <1>2, Facts, Fields DEF Rest, ReadIsNext, WriteIsNext,
       Positions, Places, Success, Running, WriteFailed, GotoError, input
  <2> QED
    BY <1>1, <2>1, <2>2 DEF IInv, Rest
<1>12. CASE StartRead
  <2>1. CaTypeOK'
    <3>1. ControlType'
      <4>1. \/ pc' = "startWrite" /\ ret' = ret
            \/ pc' = "error" /\ ret' = -4
        BY <1>12 DEF StartRead, GotoError
      <4>2. UNCHANGED <<is_ntfs, alternate, held>>
        BY <1>12 DEF StartRead, input
      <4> QED
        BY <1>types, <4>1, <4>2 DEF ControlType
    <3>flags. FlagType'
      BY <1>12, <1>types, Zenon DEF FlagType, StartRead
    <3>2. CounterType'
      BY <1>12, <1>types, CounterFacts DEF CounterType, StartRead
    <3>3. PositionType'
      BY <1>12, <1>types, <1>2, Facts, Fields DEF PositionType, StartRead, input
    <3>4. BufferType'
      BY <1>12, <1>types, <1>2, ReadRequestType DEF BufferType, StartRead
    <3> QED
      BY <1>types, <3>1, <3>flags, <3>2, <3>3, <3>4, TypePartsNext
  <2>2. Rest'
    BY <1>12, <1>1, <1>2, Facts, Fields, ReadRequestType
       DEF Rest, ReadIsNext, WriteIsNext,
       Positions, Places, Success, Running, StartRead, GotoError, input
  <2> QED
    BY <1>1, <2>1, <2>2 DEF IInv, Rest
<1>13. CASE ReadNtfs
  <2>1. CaTypeOK'
    <3>1. ControlType'
      BY <1>13, <1>types DEF ControlType, ReadNtfs, input
    <3>flags. FlagType'
      BY <1>13, <1>types, Zenon DEF FlagType, ReadNtfs
    <3>2. CounterType'
      BY <1>13, <1>types, CounterFacts, <1>2, Facts, ReadRequestType
         DEF CounterType, ReadNtfs, Requests
    <3>3. PositionType'
      BY <1>13, <1>types, <1>2, Facts, Fields DEF PositionType, ReadNtfs, input
    <3>4. BufferType'
      BY <1>13, <1>types, <1>2, ReadRequestType, HoldsType DEF BufferType, ReadNtfs
    <3> QED
      BY <1>types, <3>1, <3>flags, <3>2, <3>3, <3>4, TypePartsNext
  <2>2. Rest'
    BY <1>13, <1>1, <1>2, Facts, Fields, ReadRequestType, HoldsType
       DEF Rest, ReadIsNext, WriteIsNext,
       Positions, Places, Success, Running, ReadNtfs, input
  <2> QED
    BY <1>1, <2>1, <2>2 DEF IInv, Rest
<1>14. CASE StartWrite
  <2>1. CaTypeOK'
    <3>1. ControlType'
      <4>1. \/ pc' = "writeEnd" /\ ret' = ret
            \/ pc' = "error" /\ ret' = -6
        BY <1>14 DEF StartWrite, GotoError
      <4>2. UNCHANGED <<is_ntfs, held>>
        BY <1>14 DEF StartWrite, input
      <4>3. alternate' \in {0, 1}
        BY <1>14, <1>2, Fields DEF StartWrite, OtherHalf
      <4> QED
        BY <1>types, <4>1, <4>2, <4>3 DEF ControlType
    <3>flags. FlagType'
      BY <1>14, <1>types, Zenon DEF FlagType, StartWrite
    <3>2. CounterType'
      BY <1>14, <1>types, CounterFacts DEF CounterType, StartWrite
    <3>3. PositionType'
      BY <1>14, <1>types, <1>2, Facts, Fields
         DEF PositionType, Rest, ReadIsNext, StartWrite, MayWrite, input, MinOf
    <3>4. BufferType'
      BY <1>14, <1>types DEF BufferType, StartWrite, Requests
    <3> QED
      BY <1>types, <3>1, <3>flags, <3>2, <3>3, <3>4, TypePartsNext
  <2>2. Rest'
    BY <1>14, <1>1, <1>2, Facts, Fields DEF Rest, ReadIsNext, WriteIsNext,
       Positions, Places, Success, Running, StartWrite, MayWrite, OtherHalf, GotoError, input, MinOf
  <2> QED
    BY <1>1, <2>1, <2>2 DEF IInv, Rest
<1>15. CASE WriteDone
  <2>1. CaTypeOK'
    <3>1. ControlType'
      BY <1>15, <1>types DEF ControlType, WriteDone, input
    <3>flags. FlagType'
      BY <1>15, <1>types, Zenon DEF FlagType, WriteDone
    <3>2. CounterType'
      BY <1>15, <1>types, CounterFacts DEF CounterType, WriteDone
    <3>3. PositionType'
      BY <1>15, <1>types, <1>2, Facts, Fields
         DEF PositionType, Rest, Positions, WriteDone, input
    <3>4. BufferType'
      BY <1>15, <1>types, <1>2 DEF BufferType, WriteDone
    <3> QED
      BY <1>types, <3>1, <3>flags, <3>2, <3>3, <3>4, TypePartsNext
  <2>2. Rest'
    BY <1>15, <1>1, <1>2, Facts, Fields DEF Rest, ReadIsNext, WriteIsNext,
       Positions, Places, Success, Running, WriteDone, input
  <2> QED
    BY <1>1, <2>1, <2>2 DEF IInv, Rest
<1>16. CASE Error
  <2>1. CaTypeOK'
    <3>1. ControlType'
      BY <1>16, <1>types
         DEF ControlType, Error, WritingAfterCancel, GiveBack, Closed, Things, input
    <3>flags. FlagType'
      BY <1>16, <1>types, Zenon DEF FlagType, Error, WritingAfterCancel
    <3>2. CounterType'
      BY <1>16, <1>types, CounterFacts DEF CounterType, Error, input
    <3>3. PositionType'
      BY <1>16, <1>types, <1>2, Facts, Fields DEF PositionType, Error, input
    <3>4. BufferType'
      BY <1>16, <1>types, <1>2 DEF BufferType, Error, input
    <3> QED
      BY <1>types, <3>1, <3>flags, <3>2, <3>3, <3>4, TypePartsNext
  <2>2. Rest'
    BY <1>16, <1>1, <1>2, Facts, Fields DEF Rest, ReadIsNext, WriteIsNext,
       Positions, Places, Success, Running, Error, WritingAfterCancel, GiveBack, input
  <2> QED
    BY <1>1, <2>1, <2>2 DEF IInv, Rest
<1> QED
  BY <1>3, <1>4, <1>5, <1>6, <1>7, <1>8, <1>9, <1>10, <1>11, <1>12, <1>13, <1>14, <1>15, <1>16
     DEF Main

LEMMA CallbacksKeep == IInv /\ (fast_func_read \/ fast_func_write) => IInv'
<1> SUFFICES ASSUME IInv, fast_func_read \/ fast_func_write PROVE IInv'
  OBVIOUS
<1>1. CaTypeOK /\ Rest /\ CopyIsInOrder
  BY DEF IInv, Rest
<1>types. ControlType /\ FlagType /\ CounterType /\ PositionType /\ BufferType /\ OutputType
  BY <1>1, TypeParts
<1>2. CASE fast_func_read
  <2>1. CopyIsInOrder' /\ Reach' = Reach
    BY <1>1, <1>2, SameOutput DEF fast_func_read
  <2>2. CaTypeOK'
    <3>1. ControlType'
      BY <1>2, <1>types DEF ControlType, fast_func_read, input
    <3>flags. FlagType'
      BY <1>2, <1>types, Zenon DEF FlagType, fast_func_read
    <3>2. CounterType'
      <4>1. t_read.size \in 0 .. Chunk
        BY <1>1, Fields, Facts
      <4> QED
        BY <1>2, <1>1, <1>types, <4>1, CounterFacts
           DEF CounterType, Rest, ReadIsNext, fast_func_read, Answered
    <3>3. PositionType'
      BY <1>2, <1>types DEF PositionType, fast_func_read, input
    <3>4. BufferType'
      BY <1>1, <1>2, <1>types, HoldsType DEF BufferType, fast_func_read
    <3>5. OutputType'
      BY <1>2, <1>types DEF OutputType, fast_func_read
    <3> QED
      BY <3>1, <3>flags, <3>2, <3>3, <3>4, <3>5, TypePartsNext
  <2>3. Rest'
    <3>1. /\ reading /\ readed = InFlight /\ t_read.half \in {0, 1} /\ ~reading'
          /\ \/ readed' = InFlight + t_read.size /\ mem' = Holds(t_read)
             \/ readed' = Failed /\ mem' = mem
      BY <1>1, <1>2, Fields DEF Rest, ReadIsNext, fast_func_read, Answered
    <3>2. mem'[t_read.half].from = t_read.offset \/ readed' = Failed
      BY <1>1, <3>1, Fields, HoldsType
    <3>3. writing => mem'[t_write.half] = mem[t_write.half]
      BY <1>1, <3>1, Fields, HoldsType DEF Rest, ReadIsNext, WriteIsNext
    <3>4. ReadIsNext'
      BY <1>1, <1>2, <3>1, <3>2, Facts, Fields
         DEF Rest, ReadIsNext, fast_func_read, input
    <3>5. WriteIsNext'
      BY <1>1, <1>2, <2>1, <3>3 DEF Rest, WriteIsNext, fast_func_read
    <3>6. Positions'
      BY <1>1, <1>2, <2>1 DEF Rest, Positions, fast_func_read, input
    <3>7. Places'
      BY <1>1, <1>2, <2>1, <3>1
         DEF Rest, Places, Success, Running, fast_func_read, input
    <3> QED
      BY <3>4, <3>5, <3>6, <3>7 DEF Rest
  <2> QED
    BY <2>1, <2>2, <2>3 DEF IInv, Rest
<1>3. CASE fast_func_write /\ UNCHANGED dst
  <2>1. CopyIsInOrder' /\ Reach' = Reach
    BY <1>1, <1>3, SameOutput
  <2>2. CaTypeOK'
    <3>1. ControlType'
      BY <1>3, <1>types DEF ControlType, fast_func_write, input
    <3>flags. FlagType'
      BY <1>3, <1>types, Zenon DEF FlagType, fast_func_write
    <3>2. CounterType'
      <4>1. t_write.size \in 0 .. Chunk
        BY <1>1, Fields, Facts
      <4> QED
        BY <1>3, <1>1, <1>types, <4>1, CounterFacts
           DEF CounterType, Rest, WriteIsNext, fast_func_write, Answered
    <3>3. PositionType'
      BY <1>3, <1>types DEF PositionType, fast_func_write, input
    <3>4. BufferType'
      BY <1>3, <1>types DEF BufferType, fast_func_write
    <3>5. OutputType'
      BY <1>3, <1>types DEF OutputType
    <3> QED
      BY <3>1, <3>flags, <3>2, <3>3, <3>4, <3>5, TypePartsNext
  <2>3. ReadIsNext' /\ WriteIsNext'
    BY <1>1, <1>3, <2>1, Facts, Fields DEF Rest, ReadIsNext, WriteIsNext, fast_func_write, input
  <2>4. Positions'
    BY <1>1, <1>3, <2>1, Facts, Fields DEF Rest, WriteIsNext, Positions, Places, fast_func_write,
       Answered, input
  <2>5. Places'
    BY <1>1, <1>3, <2>1, Facts, Fields DEF Rest, WriteIsNext, Positions, Places, Success, Running,
       fast_func_write, Answered, input
  <2> QED
    BY <2>1, <2>2, <2>3, <2>4, <2>5 DEF IInv, Rest
<1>4. CASE fast_func_write /\ ~UNCHANGED dst
  <2> DEFINE c == [at |-> t_write.offset, from |-> mem[t_write.half].from,
                   n |-> t_write.size]
  <2>1. dst' = Append(dst, c) /\ c.at = Reach /\ c.from = c.at
    BY <1>1, <1>4 DEF Rest, WriteIsNext, fast_func_write
  <2>2. c \in OutputChunks
    BY <1>1, Fields DEF OutputChunks
  <2>3. /\ dst' \in Seq(OutputChunks)
        /\ CopyIsInOrder' /\ Reach' = t_write.offset + t_write.size
    BY <1>1, <2>1, <2>2, AppendChunk
  <2>4. CaTypeOK'
    <3>1. ControlType'
      BY <1>4, <1>types DEF ControlType, fast_func_write, input
    <3>flags. FlagType'
      BY <1>4, <1>types, Zenon DEF FlagType, fast_func_write
    <3>2. CounterType'
      <4>1. t_write.size \in 0 .. Chunk
        BY <1>1, Fields, Facts
      <4> QED
        BY <1>4, <1>1, <1>types, <4>1, CounterFacts
           DEF CounterType, Rest, WriteIsNext, fast_func_write, Answered
    <3>3. PositionType'
      BY <1>4, <1>types DEF PositionType, fast_func_write, input
    <3>4. BufferType'
      BY <1>4, <1>types DEF BufferType, fast_func_write
    <3>5. OutputType'
      BY <2>3 DEF OutputType
    <3> QED
      BY <3>1, <3>flags, <3>2, <3>3, <3>4, <3>5, TypePartsNext
  <2>5. Rest'
    BY <1>1, <1>4, <2>3, Facts, Fields DEF Rest, ReadIsNext, WriteIsNext,
       Positions, Places, Success, Running, fast_func_write, Answered, input
  <2> QED
    BY <2>3, <2>4, <2>5 DEF IInv, Rest
<1> QED
  BY <1>2, <1>3, <1>4

\* The invariant is inductive: the loop of copy_async and both callbacks
\* (pkg_install.c:649-822) keep it.
THEOREM NextKeeps == IInv /\ [Next]_vars => IInv'
<1>1. CASE IInv /\ UNCHANGED vars
  BY <1>1 DEF vars, input, IInv, CaTypeOK, CopyIsInOrder, EndOf, ReadIsNext,
     WriteIsNext, Reach, Positions, Places, Success
<1> QED
  BY <1>1, MainKeeps, CallbacksKeep DEF Next

(* IInv holds in every reachable state.                                    *)
THEOREM Invariance == Spec => []IInv
<1>1. Spec => Init /\ [][Next]_vars
  BY DEF Spec
<1> QED
  BY <1>1, InitIInv, NextKeeps, PTL

-----------------------------------------------------------------------------
(* The types of copy_async's state, for every chunk and file size: pkg_    *)
(* install.c:700-822 keeps its counters and positions in range.            *)
THEOREM TypeCorrect == Spec => []CaTypeOK
<1>1. IInv => CaTypeOK
  BY DEF IInv
<1> QED
  BY <1>1, Invariance, PTL

(* The output of copy_async (pkg_install.c:738-798) grows chunk by chunk,  *)
(* in order and with the content of the source.                            *)
THEOREM InOrder == Spec => []CopyIsInOrder
<1>1. IInv => CopyIsInOrder
  BY DEF IInv
<1> QED
  BY <1>1, Invariance, PTL

(* When copy_async returns 0 (pkg_install.c:808) the whole file is written.*)
THEOREM Complete == Spec => []SuccessIsComplete
<1>1. IInv => SuccessIsComplete
  BY DEF IInv, Places, SuccessIsComplete, Reach
<1> QED
  BY <1>1, Invariance, PTL

(* A read in flight and a write in flight use different halves of the      *)
(* buffer (pkg_install.c:746, 770).                                        *)
THEOREM Apart == Spec => []HalvesApart
<1>1. IInv => HalvesApart
  BY Fields DEF IInv, ReadIsNext, WriteIsNext, HalvesApart
<1> QED
  BY <1>1, Invariance, PTL

(* Nothing but the read of no bytes is in flight when copy_async returns   *)
(* (pkg_install.c:800-822).                                                *)
THEOREM Quiet == Spec => []QuietAtReturn
<1>1. IInv => QuietAtReturn
  <2> SUFFICES ASSUME IInv, pc = "done" PROVE ~writing /\ (reading => t_read.size = 0)
    BY DEF QuietAtReturn
  <2>1. ~writing /\ (reading => pos = size)
    BY DEF IInv, Places
  <2>2. reading => t_read.size = MinOf(size - pos, Chunk)
    BY DEF IInv, ReadIsNext
  <2>3. pos = size => MinOf(size - pos, Chunk) = 0
    BY Facts, Fields DEF IInv, MinOf
  <2> QED
    BY <2>1, <2>2, <2>3
<1> QED
  BY <1>1, Invariance, PTL

-----------------------------------------------------------------------------
(* What is lost: HeldInv says what copy_async holds while it runs.         *)
LEMMA HeldNext == IInv /\ HeldInv /\ Losses /\ [Next]_vars => HeldInv' /\ Losses'
<1> SUFFICES ASSUME IInv, HeldInv, Losses, [Next]_vars PROVE HeldInv' /\ Losses'
  OBVIOUS
<1> USE DEF HeldInv, AllThings, Running
<1>1. pos \in Nat /\ size \in Nat /\ pos2 \in Nat /\ pos2 <= pos
  BY Fields DEF IInv
<1>2. CASE Setup
  BY <1>1, <1>2 DEF IInv, Places, Setup, SetupFails, Losses, Success, Things, input
<1>3. CASE LoopEnds
  BY <1>1, <1>3
     DEF LoopEnds, GiveBack, Closed, AllWritten, Losses, Success, Things, input
<1>4. CASE Error
  BY <1>1, <1>4
     DEF IInv, Places, Error, GiveBack, Closed, Losses, Success, Things, input
<1>5. CASE LoopGoesOn \/ UserCancels \/ NoRead \/ ReadFailed \/ NoWrite \/ WriteFailed
           \/ WriteDone \/ StillWriting
  BY <1>5 DEF LoopGoesOn, UserCancels, NoRead, ReadFailed, NoWrite, WriteFailed,
     WriteDone, StillWriting, GotoError, Losses, input
<1>6. CASE StartRead \/ ReadNtfs
  BY <1>6, ReadRequestType DEF IInv, StartRead, ReadNtfs, GotoError, Losses, input
<1>7. CASE StartWrite
  BY <1>7 DEF IInv, ReadIsNext, StartWrite, MayWrite, GotoError, Losses, input
<1>8. CASE fast_func_read \/ fast_func_write
  BY <1>8 DEF fast_func_read, fast_func_write, Losses, Success, input
<1>9. CASE UNCHANGED vars
  BY <1>9 DEF vars, Losses, Success, input
<1> QED
  BY <1>2, <1>3, <1>4, <1>5, <1>6, <1>7, <1>8, <1>9 DEF Next, Main

(* What copy_async leaves behind when it returns (pkg_install.c:700-722    *)
(* and 800-820).                                                           *)
THEOREM Lost == Spec => []Losses
<1>1. Init => HeldInv /\ Losses
  BY DEF Init, HeldInv, Losses, Running
<1> QED
  BY <1>1, HeldNext, Invariance, PTL DEF Spec

(* copy_async answers 0 only for a whole copy, and of what it works with   *)
(* only the listed remains survive its return (pkg_install.c:686-822).     *)
THEOREM Returned == Spec => []ReturnIsSound
<1> QED
  BY Complete, Quiet, Lost, PTL DEF ReturnIsSound
=============================================================================
