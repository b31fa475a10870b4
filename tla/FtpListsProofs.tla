----------------------------- MODULE FtpListsProofs -----------------------------
(***************************************************************************)
(* Theorems about two components that share no state: the list of games    *)
(* kept up to date (GameLists) and the FTP server (FtpSession and          *)
(* FtpServer). Each comes with the lemmas it rests on; what the operators  *)
(* of GameList do to any list is in GameListProofs.                        *)
(***************************************************************************)
EXTENDS FtpServer, GameLists, GameListProofs

(***************************************************************************)
(* The list of games kept up to date, for all contents of the devices,     *)
(* lengths of the list and numbers of favourites.                          *)
(***************************************************************************)

GameEntry == [id : Nat \ {0}, dev : Devices, kind : Kinds]
GameFile == [id : Nat \ {0}, kind : Kinds]

(* The entries made of the files of a kind.                                *)
Made(files, dev, kinds) ==
  {[id |-> f.id, dev |-> dev, kind |-> f.kind] : f \in {g \in files : g.kind \in kinds}}

(* The devices of which the list has a PSX game, and the bound on what the *)
(* array is written past its end.                                          *)
PsxDevs(list) == {e.dev : e \in {x \in ToSet(list) : IsPsx(x)}}
Overrun(list) == Len(list) - Capacity <= Cardinality(PsxDevs(list))

(* There is room for a PSX game of this device: none is in the list yet.   *)
PsxRoom(list, dev) == Len(list) <= Capacity \/ \A e \in ToSet(list) : e.dev = dev => ~IsPsx(e)

(* x is the list with entries out of add after it, all if there is room.   *)
Grown(list, x, add) ==
  /\ x \in Seq(GameEntry) /\ Len(list) <= Len(x)
  /\ ToSet(list) \subseteq ToSet(x) /\ ToSet(x) \subseteq ToSet(list) \cup add
  /\ Distinct(list) /\ ToSet(list) \cap add = {} => Distinct(x)
  /\ Len(x) < Capacity => ToSet(x) = ToSet(list) \cup add
  /\ Overrun(list) => Overrun(x)

(* x is the list with what it had of the device replaced by what is shown  *)
(* of it now.                                                              *)
Refilled(list, x, dev, shown) ==
  /\ x \in Seq(GameEntry)
  /\ Distinct(list) => Distinct(x)
  /\ Overrun(list) => Overrun(x)
  /\ \A e : e.dev # dev => (e \in ToSet(x) <=> e \in ToSet(list))
  /\ \A e \in ToSet(x) : e.dev = dev => e \in shown
  /\ Len(x) < Capacity => shown \subseteq ToSet(x)

-----------------------------------------------------------------------------
\* The devices with a PSX game are at most the four.
LEMMA PsxDevsFinite ==
  ASSUME NEW list \in Seq(GameEntry)
  PROVE  /\ PsxDevs(list) \subseteq Devices /\ IsFiniteSet(PsxDevs(list))
         /\ Cardinality(PsxDevs(list)) \in Nat
<1>1. PsxDevs(list) \subseteq Devices
  <2>1. ToSet(list) \subseteq GameEntry
    BY InToSet
  <2> QED
    BY <2>1 DEF PsxDevs, GameEntry
<1>2. IsFiniteSet(Devices)
  <2>1. Devices = ((({} \cup {"hdd"}) \cup {"usb"}) \cup {"bdvd"}) \cup {"ntfs"}
    BY DEF Devices
  <2> QED
    BY <2>1, FS_EmptySet, FS_AddElement
<1> QED
  BY <1>1, <1>2, FS_Subset, FS_CardinalityType

\* A list that is not past its end is not far past it.
LEMMA NoOverrun ==
  ASSUME NEW list \in Seq(GameEntry), Len(list) <= Capacity
  PROVE  Overrun(list)
BY PsxDevsFinite, InToSet, CapacityAssumption DEF Overrun

\* Only the length and the entries of a list matter, not their order.
LEMMA OverrunShuffled ==
  ASSUME NEW list \in Seq(GameEntry), Overrun(list), NEW x \in Shuffles(GameEntry, list)
  PROVE  Overrun(x)
BY DEF Overrun, PsxDevs, Shuffles

\* More PSX games never make it worse.
LEMMA OverrunGrows ==
  ASSUME NEW list \in Seq(GameEntry), NEW x \in Seq(GameEntry), Overrun(list),
         Len(x) <= Len(list), ToSet(list) \subseteq ToSet(x)
  PROVE  Overrun(x)
<1>1. PsxDevs(list) \subseteq PsxDevs(x)
  BY DEF PsxDevs
<1>2. Cardinality(PsxDevs(list)) <= Cardinality(PsxDevs(x))
  BY <1>1, PsxDevsFinite, FS_Subset
<1> QED
  BY <1>2, PsxDevsFinite, InToSet, CapacityAssumption DEF Overrun

\* Deleting the entries of a device takes away its PSX game with it.
LEMMA OverrunDeleted ==
  ASSUME NEW list \in Seq(GameEntry), Overrun(list), NEW dev
  PROVE  Overrun(delete_entries(list, dev))
<1> DEFINE x == delete_entries(list, dev)
<1>1. /\ x \in Seq(GameEntry) /\ Len(x) <= Len(list)
      /\ ToSet(x) = {e \in ToSet(list) : e.dev # dev}
      /\ Len(x) = Len(list) => x = list
  BY DeleteEntries
<1> HIDE DEF x
<1>2. PsxDevs(x) = PsxDevs(list) \ {dev}
  BY <1>1 DEF PsxDevs
<1>3. Cardinality(PsxDevs(x)) = IF dev \in PsxDevs(list) THEN Cardinality(PsxDevs(list)) - 1
                                ELSE Cardinality(PsxDevs(list))
  BY <1>2, PsxDevsFinite, FS_RemoveElement
<1>4. dev \in PsxDevs(list) => Len(x) # Len(list)
  BY <1>1, <1>2
<1> QED
  BY <1>1, <1>3, <1>4, PsxDevsFinite, InToSet, CapacityAssumption DEF Overrun, x

\* Adding images.
LEMMA IsoGrows ==
  ASSUME NEW list \in Seq(GameEntry), NEW new \in Seq(GameEntry), Distinct(new)
  PROVE  Grown(list, fill_iso(list, new), ToSet(new))
<1> DEFINE x == fill_iso(list, new)
<1>1. /\ x \in Seq(GameEntry) /\ Len(list) <= Len(x)
      /\ Len(x) <= Capacity \/ x = list
      /\ ToSet(list) \subseteq ToSet(x) /\ ToSet(x) \subseteq ToSet(list) \cup ToSet(new)
      /\ Distinct(list) /\ Distinct(new) /\ ToSet(list) \cap ToSet(new) = {} => Distinct(x)
      /\ Len(x) < Capacity => ToSet(x) = ToSet(list) \cup ToSet(new)
  BY FillIso
<1> HIDE DEF x
<1>2. Overrun(list) => Overrun(x)
  BY <1>1, NoOverrun
<1> QED
  BY <1>1, <1>2 DEF Grown, x

\* Adding PSX games of a device that has none in the list, or to a list that
\* is not full: at most one is past its end, and it is one more.
LEMMA PsxGrows ==
  ASSUME NEW list \in Seq(GameEntry), NEW new \in Seq(GameEntry), Distinct(new), NEW dev,
         PsxRoom(list, dev), \A e \in ToSet(new) : e.dev = dev /\ IsPsx(e)
  PROVE  Grown(list, fill_psx(list, new), ToSet(new))
<1> DEFINE x == fill_psx(list, new)
<1>1. /\ x \in Seq(GameEntry) /\ Len(list) <= Len(x)
      /\ Len(x) <= Capacity \/ x = list \/ (Len(x) = Len(list) + 1 /\ x[Len(x)] \in ToSet(new))
      /\ ToSet(list) \subseteq ToSet(x) /\ ToSet(x) \subseteq ToSet(list) \cup ToSet(new)
      /\ Distinct(list) /\ Distinct(new) /\ ToSet(list) \cap ToSet(new) = {} => Distinct(x)
      /\ Len(x) < Capacity => ToSet(x) = ToSet(list) \cup ToSet(new)
  BY FillPsx
<1> HIDE DEF x
<1>2. Overrun(list) => Overrun(x)
  <2>1. SUFFICES ASSUME Overrun(list), Len(x) = Len(list) + 1, x[Len(x)] \in ToSet(new)
                 PROVE  Overrun(x)
    BY <1>1, NoOverrun
  <2>2. Len(x) \in 1 .. Len(x) /\ x[Len(x)] \in ToSet(x)
    BY <1>1, <2>1, InToSet
  <2>3. dev \in PsxDevs(x) /\ PsxDevs(list) \subseteq PsxDevs(x)
    BY <1>1, <2>1, <2>2 DEF PsxDevs
  <2>4. Cardinality(PsxDevs(x)) \in Nat /\ Cardinality(PsxDevs(list)) \in Nat
    BY <1>1, PsxDevsFinite
  <2>5. CASE Len(list) <= Capacity
    <3>1. Cardinality({dev}) <= Cardinality(PsxDevs(x)) /\ Cardinality({dev}) = 1
      <4>1. IsFiniteSet(PsxDevs(x)) /\ {dev} \subseteq PsxDevs(x)
        BY <1>1, <2>3, PsxDevsFinite
      <4>2. Cardinality({dev}) <= Cardinality(PsxDevs(x))
        BY <4>1, FS_Subset
      <4> QED
        BY <4>2, FS_Singleton
    <3> QED
      BY <1>1, <2>1, <2>4, <2>5, <3>1, InToSet, CapacityAssumption DEF Overrun
  <2>6. CASE \A e \in ToSet(list) : e.dev = dev => ~IsPsx(e)
    <3>1. dev \notin PsxDevs(list)
      BY <2>6 DEF PsxDevs
    <3>2. /\ PsxDevs(list) \cup {dev} \subseteq PsxDevs(x)
          /\ Cardinality(PsxDevs(list) \cup {dev}) = Cardinality(PsxDevs(list)) + 1
      BY <2>3, <3>1, PsxDevsFinite, FS_AddElement
    <3>3. Cardinality(PsxDevs(list)) + 1 <= Cardinality(PsxDevs(x))
      BY <1>1, <3>2, PsxDevsFinite, FS_Subset
    <3> QED
      BY <1>1, <2>1, <2>4, <3>3, InToSet, CapacityAssumption DEF Overrun
  <2> QED
    BY <2>5, <2>6 DEF PsxRoom
<1> QED
  BY <1>1, <1>2 DEF Grown, x
-----------------------------------------------------------------------------
(* Filling the list from a device.                                         *)

\* The entries on their way into the list, or none if they are not shown.
LEMMA ShownEntries ==
  ASSUME NEW files \in SUBSET GameFile, IsFiniteSet(files), NEW dev \in Devices, NEW kinds,
         NEW shown \in BOOLEAN
  PROVE  LET new == IF shown THEN EntriesOf(files, dev, kinds) ELSE << >>
         IN  /\ new \in Seq(GameEntry) /\ Distinct(new)
             /\ ToSet(new) = Made(files, dev, IF shown THEN kinds ELSE {})
<1>1. CASE shown
  <2>1. \A f \in files : f = [id |-> f.id, kind |-> f.kind]
    BY DEF GameFile
  <2>2. \A f \in files : f.kind \in kinds => [id |-> f.id, dev |-> dev, kind |-> f.kind] \in GameEntry
    BY DEF GameFile, GameEntry
  <2>3. LET new == EntriesOf(files, dev, kinds)
        IN  /\ new \in Seq(GameEntry) /\ Distinct(new)
            /\ ToSet(new) = {[id |-> f.id, dev |-> dev, kind |-> f.kind] :
                               f \in {g \in files : g.kind \in kinds}}
    BY <2>1, <2>2, EntriesOfFiles
  <2> QED
    BY <1>1, <2>3 DEF Made
<1>2. CASE ~shown
  <2>1. << >> \in Seq(GameEntry) /\ Len(<< >>) = 0 /\ ToSet(<< >>) = {}
    BY DEF ToSet
  <2>2. Distinct(<< >>)
    BY <2>1 DEF Distinct
  <2>3. Made(files, dev, {}) = {}
    BY DEF Made
  <2> QED
    BY <1>2, <2>1, <2>2, <2>3
<1> QED
  BY <1>1, <1>2

\* What is made of a device's files belongs to it, is of the kinds asked for
\* and differs from what is made of other kinds.
LEMMA MadeOf ==
  ASSUME NEW files \in SUBSET GameFile, NEW dev \in Devices, NEW kinds, NEW others
  PROVE  /\ \A e \in Made(files, dev, kinds) : e \in GameEntry /\ e.dev = dev /\ e.kind \in kinds
         /\ Made(files, dev, kinds \cup others) = Made(files, dev, kinds) \cup Made(files, dev, others)
         /\ kinds \cap others = {} => Made(files, dev, kinds) \cap Made(files, dev, others) = {}
         /\ Made(files, dev, {}) = {}
<1>1. \A e \in Made(files, dev, kinds) : e \in GameEntry /\ e.dev = dev /\ e.kind \in kinds
  BY DEF Made, GameFile, GameEntry
<1>2. \A e \in Made(files, dev, others) : e.kind \in others
  BY DEF Made
<1> QED
  BY <1>1, <1>2 DEF Made

\* A list that grows twice has grown.
LEMMA GrownTwice ==
  ASSUME NEW list \in Seq(GameEntry), NEW x, NEW y, NEW a, NEW b,
         Grown(list, x, a), Grown(x, y, b), a \cap b = {}
  PROVE  Grown(list, y, a \cup b)
<1>1. Len(list) \in Nat /\ Len(x) \in Nat /\ Len(y) \in Nat /\ Capacity \in Nat
  BY InToSet, CapacityAssumption DEF Grown
<1> QED
  BY <1>1 DEF Grown

\* A list that lost the entries of a device and grew by some is refilled.
LEMMA GrownIsRefilled ==
  ASSUME NEW list \in Seq(GameEntry), NEW dev, NEW x, NEW add, NEW shown,
         Grown(delete_entries(list, dev), x, add), \A e \in shown : e.dev = dev,
         add \subseteq shown, Len(x) < Capacity => shown \subseteq add
  PROVE  Refilled(list, x, dev, shown)
<1> DEFINE l0 == delete_entries(list, dev)
<1>1. /\ l0 \in Seq(GameEntry)
      /\ ToSet(l0) = {e \in ToSet(list) : e.dev # dev}
      /\ Distinct(list) => Distinct(l0)
  BY DeleteEntries
<1>2. Overrun(list) => Overrun(l0)
  BY OverrunDeleted
<1> HIDE DEF l0
<1>3. Grown(l0, x, add)
  BY DEF l0
<1>4. ToSet(l0) \cap add = {}
  BY <1>1
<1> QED
  BY <1>1, <1>2, <1>3, <1>4 DEF Grown, Refilled

\* A list grows by nothing.
LEMMA GrownByNothing ==
  ASSUME NEW list \in Seq(GameEntry)
  PROVE  Grown(list, list, {})
BY InToSet DEF Grown

(* The kinds fill_entries_from_device lists.                               *)
FilledKinds(dev, sel, mode, category, images) ==
  LET game == sel = GAMEBASE_MODE
  IN  (((IF game /\ images /\ category # 2 THEN {"ps3"} ELSE {})
         \cup (IF game /\ images /\ category # 1 /\ dev = "hdd" THEN {"ps2"} ELSE {}))
         \cup (IF ~game /\ images THEN {"film"} ELSE {}))
         \cup (IF game /\ category # 1 THEN {"psx"} ELSE {})
FilledFolders(sel, mode, category) ==
  IF (sel = GAMEBASE_MODE /\ category = 2) \/ mode > HOMEBREW_MODE THEN {}
  ELSE IF sel = GAMEBASE_MODE THEN {"folder"} ELSE {"homebrew"}

\* fill_entries_from_device refills the list with the kinds the mode and the
\* category ask for.
LEMMA FillEntries ==
  ASSUME NEW list \in Seq(GameEntry), NEW dev \in Devices,
         NEW files \in SUBSET GameFile, IsFiniteSet(files),
         NEW sel, NEW mode, NEW category, NEW images \in BOOLEAN
  PROVE  Refilled(list, fill_entries_from_device(list, dev, files, sel, mode, category, images), dev,
                  Made(files, dev, FilledKinds(dev, sel, mode, category, images)
                                     \cup FilledFolders(sel, mode, category)))
<1> DEFINE game == sel = GAMEBASE_MODE
           c1 == game /\ images /\ category # 2
           c2 == game /\ images /\ category # 1 /\ dev = "hdd"
           c3 == ~game /\ images
           c4 == game /\ category # 1
           k1 == IF c1 THEN {"ps3"} ELSE {}
           k2 == IF c2 THEN {"ps2"} ELSE {}
           k3 == IF c3 THEN {"film"} ELSE {}
           k4 == IF c4 THEN {"psx"} ELSE {}
           k5 == FilledFolders(sel, mode, category)
           new1 == IF c1 THEN EntriesOf(files, dev, {"ps3"}) ELSE << >>
           new2 == IF c2 THEN EntriesOf(files, dev, {"ps2"}) ELSE << >>
           new3 == IF c3 THEN EntriesOf(files, dev, {"film"}) ELSE << >>
           new4 == IF c4 THEN EntriesOf(files, dev, {"psx"}) ELSE << >>
           new5 == EntriesOf(files, dev, IF game THEN {"folder"} ELSE {"homebrew"})
           l0 == delete_entries(list, dev)
           l1 == fill_iso(l0, new1)
           l2 == fill_iso(l1, new2)
           l3 == fill_iso(l2, new3)
           l4 == fill_psx(l3, new4)
           l5 == fill_iso(l4, new5)
           last == (game /\ category = 2) \/ mode > HOMEBREW_MODE
           M(k) == Made(files, dev, k)
           x == fill_entries_from_device(list, dev, files, sel, mode, category, images)
<1>1. x = IF Len(l0) >= Capacity THEN l0 ELSE IF Len(l4) >= Capacity \/ last THEN l4 ELSE l5
  BY DEF fill_entries_from_device
<1>2. new1 \in Seq(GameEntry) /\ Distinct(new1) /\ ToSet(new1) = M(k1)
  BY ShownEntries
<1>3. new2 \in Seq(GameEntry) /\ Distinct(new2) /\ ToSet(new2) = M(k2)
  BY ShownEntries
<1>4. new3 \in Seq(GameEntry) /\ Distinct(new3) /\ ToSet(new3) = M(k3)
  BY ShownEntries
<1>5. new4 \in Seq(GameEntry) /\ Distinct(new4) /\ ToSet(new4) = M(k4)
  BY ShownEntries
<1>6. new5 \in Seq(GameEntry) /\ Distinct(new5) /\ (~last => ToSet(new5) = M(k5))
  <2>1. LET new == IF TRUE THEN EntriesOf(files, dev, IF game THEN {"folder"} ELSE {"homebrew"}) ELSE << >>
        IN  /\ new \in Seq(GameEntry) /\ Distinct(new)
            /\ ToSet(new) = Made(files, dev, IF TRUE THEN IF game THEN {"folder"} ELSE {"homebrew"} ELSE {})
    BY ShownEntries
  <2> QED
    BY <2>1 DEF FilledFolders
<1>7. /\ k1 \cap k2 = {} /\ (k1 \cup k2) \cap k3 = {} /\ ((k1 \cup k2) \cup k3) \cap k4 = {}
      /\ (((k1 \cup k2) \cup k3) \cup k4) \cap k5 = {}
      /\ k1 \subseteq {"ps3"} /\ k2 \subseteq {"ps2"} /\ k3 \subseteq {"film"} /\ k4 \subseteq {"psx"}
      /\ last => k5 = {}
  BY DEF FilledFolders
<1>8. FilledKinds(dev, sel, mode, category, images) = ((k1 \cup k2) \cup k3) \cup k4
  BY DEF FilledKinds
<1> HIDE DEF new1, new2, new3, new4, new5, k1, k2, k3, k4, k5, last
<1>9. l0 \in Seq(GameEntry) /\ \A e \in ToSet(l0) : e.dev # dev
  BY DeleteEntries
<1> HIDE DEF l0
<1>10. Grown(l0, l1, M(k1)) /\ (Len(l1) <= Capacity \/ l1 = l0) /\ l1 \in Seq(GameEntry)
  BY <1>2, <1>9, IsoGrows, FillIso
<1> HIDE DEF l1
<1>11. Grown(l1, l2, M(k2)) /\ (Len(l2) <= Capacity \/ l2 = l1) /\ l2 \in Seq(GameEntry)
  BY <1>3, <1>10, IsoGrows, FillIso
<1> HIDE DEF l2
<1>12. Grown(l2, l3, M(k3)) /\ (Len(l3) <= Capacity \/ l3 = l2) /\ l3 \in Seq(GameEntry)
  BY <1>4, <1>11, IsoGrows, FillIso
<1> HIDE DEF l3
<1>13. PsxRoom(l3, dev)
  BY <1>9, <1>10, <1>11, <1>12 DEF PsxRoom
<1>14. \A e \in ToSet(new4) : e.dev = dev /\ IsPsx(e)
  <2>1. \A e \in M(k4) : e.dev = dev /\ e.kind \in k4
    BY ZenonT(30), MadeOf
  <2> QED
    BY <1>5, <1>7, <2>1 DEF IsPsx
<1>15. Grown(l3, l4, M(k4)) /\ l4 \in Seq(GameEntry)
  <2>1. Grown(l3, l4, ToSet(new4))
    BY <1>5, <1>12, <1>13, <1>14, PsxGrows
  <2> QED
    BY <1>5, <2>1 DEF Grown
<1> HIDE DEF l4
<1>16. Grown(l4, l5, ToSet(new5))
  BY <1>6, <1>15, IsoGrows
<1> HIDE DEF l5, x
<1>17. /\ M(k1) \cap M(k2) = {} /\ M(k1 \cup k2) = M(k1) \cup M(k2)
       /\ M(k1 \cup k2) \cap M(k3) = {} /\ M((k1 \cup k2) \cup k3) = M(k1 \cup k2) \cup M(k3)
       /\ M((k1 \cup k2) \cup k3) \cap M(k4) = {}
       /\ M(((k1 \cup k2) \cup k3) \cup k4) = M((k1 \cup k2) \cup k3) \cup M(k4)
       /\ M(((k1 \cup k2) \cup k3) \cup k4) \cap M(k5) = {}
       /\ M((((k1 \cup k2) \cup k3) \cup k4) \cup k5) = M(((k1 \cup k2) \cup k3) \cup k4) \cup M(k5)
  <2> HIDE DEF M
  <2>1. \A k, o : /\ M(k \cup o) = M(k) \cup M(o)
                  /\ k \cap o = {} => M(k) \cap M(o) = {}
    <3>1. ASSUME NEW k, NEW o
          PROVE  /\ Made(files, dev, k \cup o) = Made(files, dev, k) \cup Made(files, dev, o)
                 /\ k \cap o = {} => Made(files, dev, k) \cap Made(files, dev, o) = {}
      <4>1. Made(files, dev, k \cup o) = Made(files, dev, k) \cup Made(files, dev, o)
        BY DEF Made
      <4>2. k \cap o = {} => Made(files, dev, k) \cap Made(files, dev, o) = {}
        BY MadeOf
      <4> QED
        BY <4>1, <4>2
    <3> QED
      BY <3>1 DEF M
  <2> QED
    BY <1>7, <2>1
<1>18. \A e \in M((((k1 \cup k2) \cup k3) \cup k4) \cup k5) : e.dev = dev
  <2>1. ASSUME NEW k PROVE \A e \in Made(files, dev, k) : e.dev = dev
    BY ZenonT(30), MadeOf
  <2> QED
    BY <2>1
<1>19. last => M(k5) = {}
  BY <1>7, MadeOf
<1> DEFINE all == M(((k1 \cup k2) \cup k3) \cup k4)
           shown == M((((k1 \cup k2) \cup k3) \cup k4) \cup k5)
<1> HIDE DEF M
<1>20. Grown(l0, l4, all)
  <2>1. M(k1) \cap M(k2) = {}
    BY <1>17
  <2>2. Grown(l0, l2, M(k1) \cup M(k2))
    BY <1>9, <1>10, <1>11, <2>1, GrownTwice
  <2>3. Grown(l0, l2, M(k1 \cup k2)) /\ M(k1 \cup k2) \cap M(k3) = {}
    BY <1>17, <2>2
  <2>4. Grown(l0, l3, M(k1 \cup k2) \cup M(k3))
    BY <1>9, <1>12, <2>3, GrownTwice
  <2>5. Grown(l0, l3, M((k1 \cup k2) \cup k3)) /\ M((k1 \cup k2) \cup k3) \cap M(k4) = {}
    BY <1>17, <2>4
  <2>6. Grown(l0, l4, M((k1 \cup k2) \cup k3) \cup M(k4))
    BY <1>9, <1>15, <2>5, GrownTwice
  <2> QED
    BY <1>17, <2>6
<1>21. ~last => Grown(l0, l5, shown)
  <2>1. SUFFICES ASSUME ~last PROVE Grown(l0, l5, shown)
    OBVIOUS
  <2>2. Grown(l4, l5, M(k5))
    BY <1>6, <1>16, <2>1
  <2>3. all \cap M(k5) = {} /\ shown = all \cup M(k5)
    BY <1>17
  <2> HIDE DEF all, shown
  <2> QED
    BY <1>9, <1>20, <2>2, <2>3, GrownTwice
<1>22. all \subseteq shown /\ (last => all = shown)
  BY <1>17, <1>19
<1> HIDE DEF all, shown
<1>23. Refilled(list, x, dev, shown)
  <2>0. Len(l0) \in Nat /\ Len(l4) \in Nat /\ Capacity \in Nat
    BY <1>9, <1>15, InToSet, CapacityAssumption
  <2>1. CASE Len(l0) >= Capacity
    <3>1. Grown(l0, l0, {}) /\ ~(Len(l0) < Capacity) /\ x = l0
      BY <1>1, <1>9, <2>0, <2>1, GrownByNothing
    <3>2. \A e \in shown : e.dev = dev
      BY <1>18 DEF shown
    <3> QED
      BY <3>1, <3>2, GrownIsRefilled DEF l0
  <2>2. CASE Len(l0) < Capacity /\ (Len(l4) >= Capacity \/ last)
    <3>1. x = l4 /\ (Len(l4) < Capacity => last)
      BY <1>1, <2>0, <2>2
    <3>2. \A e \in shown : e.dev = dev
      BY <1>18 DEF shown
    <3>3. Len(x) < Capacity => shown \subseteq all
      BY <1>22, <3>1
    <3> QED
      BY <1>20, <1>22, <3>1, <3>2, <3>3, GrownIsRefilled DEF l0
  <2>3. CASE Len(l0) < Capacity /\ Len(l4) < Capacity /\ ~last
    <3>1. x = l5
      BY <1>1, <2>0, <2>3
    <3>2. \A e \in shown : e.dev = dev
      BY <1>18 DEF shown
    <3> QED
      BY <1>21, <2>3, <3>1, <3>2, GrownIsRefilled DEF l0
  <2> QED
    BY <2>0, <2>1, <2>2, <2>3
<1> QED
  BY <1>8, <1>23 DEF x, shown, k5, M
-----------------------------------------------------------------------------
(* Sorting. The order is that of the groups and, in a group, of the titles;*)
(* a disc takes part in the first only.                                    *)

NotAfter(a, b, order, mode) ==
  \/ Group(a, order, mode) < Group(b, order, mode)
  \/ Group(a, order, mode) = Group(b, order, mode) /\ a.id <= b.id
NoDisc(list) == \A i \in 1 .. Len(list) : ~IsDisc(list[i])

\* An exchange of two entries is one the order asks for, and there is none
\* when it does not, but for the disc that goes to the top.
LEMMA SwapMeans ==
  ASSUME NEW a \in GameEntry, NEW b \in GameEntry, NEW first \in BOOLEAN, NEW order \in 0 .. 2,
         NEW mode \in Modes,
         ~first \/ ~IsDisc(b), mode # GAMEBASE_MODE => ~IsDisc(a) /\ ~IsDisc(b)
  PROVE  /\ Group(a, order, mode) \in {0, 1} /\ Group(b, order, mode) \in {0, 1}
         /\ MustSwap(a, b, first, order, mode) =>
              \/ Group(a, order, mode) > Group(b, order, mode)
              \/ ~IsDisc(a) /\ ~IsDisc(b) /\ ~NotAfter(a, b, order, mode)
         /\ ~MustSwap(a, b, first, order, mode) =>
              /\ Group(a, order, mode) <= Group(b, order, mode)
              /\ ~IsDisc(a) /\ ~IsDisc(b) => NotAfter(a, b, order, mode)
<1>0. a.id \in Nat /\ b.id \in Nat
  BY DEF GameEntry
<1>1. Group(a, order, mode) \in {0, 1} /\ Group(b, order, mode) \in {0, 1}
  BY DEF Group
<1>2. CASE mode # GAMEBASE_MODE
  <2>1. /\ Group(a, order, mode) = (IF IsFilm(a) THEN 1 ELSE 0)
        /\ Group(b, order, mode) = (IF IsFilm(b) THEN 1 ELSE 0)
    BY <1>2 DEF Group
  <2>2. MustSwap(a, b, first, order, mode) <=> FilmsLast(a, b)
    BY <1>2 DEF MustSwap
  <2>3. ~IsDisc(a) /\ ~IsDisc(b)
    BY <1>2
  <2>4. CASE IsFilm(a) /\ IsFilm(b)
    <3>1. MustSwap(a, b, first, order, mode) <=> a.id > b.id
      BY <2>2, <2>4 DEF FilmsLast, IsFilm
    <3>2. Group(a, order, mode) = 1 /\ Group(b, order, mode) = 1
      BY <2>1, <2>4
    <3> QED
      BY <1>0, <2>3, <3>1, <3>2 DEF NotAfter
  <2>5. CASE IsFilm(a) /\ ~IsFilm(b)
    <3>1. MustSwap(a, b, first, order, mode)
      BY <2>2, <2>5 DEF FilmsLast
    <3>2. Group(a, order, mode) = 1 /\ Group(b, order, mode) = 0
      BY <2>1, <2>5
    <3> QED
      BY <3>1, <3>2
  <2>6. CASE ~IsFilm(a) /\ IsFilm(b)
    <3>1. ~MustSwap(a, b, first, order, mode)
      BY <2>2, <2>6 DEF FilmsLast, IsFilm
    <3>2. Group(a, order, mode) = 0 /\ Group(b, order, mode) = 1
      BY <2>1, <2>6
    <3> QED
      BY <3>1, <3>2 DEF NotAfter
  <2>7. CASE ~IsFilm(a) /\ ~IsFilm(b)
    <3>1. MustSwap(a, b, first, order, mode) <=> a.id > b.id
      BY <2>2, <2>7 DEF FilmsLast, IsFilm
    <3>2. Group(a, order, mode) = 0 /\ Group(b, order, mode) = 0
      BY <2>1, <2>7
    <3> QED
      BY <1>0, <2>3, <3>1, <3>2 DEF NotAfter
  <2> QED
    BY <2>4, <2>5, <2>6, <2>7
<1>3. CASE mode = GAMEBASE_MODE /\ order = 0
  BY <1>0, <1>3 DEF Group, MustSwap, ByTitle, DiscFirst, NotAfter
<1>4. CASE mode = GAMEBASE_MODE /\ order \in {1, 2}
  <2>1. \A e : Group(e, order, mode) =
                 IF order = 1 THEN IF IsPsx(e) THEN 1 ELSE 0 ELSE IF IsPsx(e) THEN 0 ELSE 1
    BY <1>4 DEF Group
  <2>2. MustSwap(a, b, first, order, mode) <=> PsxApart(a, b, order)
    BY <1>4 DEF MustSwap, DiscFirst
  <2>3. CASE IsPsx(a) /\ IsPsx(b)
    <3>1. MustSwap(a, b, first, order, mode) <=> ByTitle(a, b)
      BY <2>2, <2>3 DEF PsxApart, IsPsx
    <3>2. Group(a, order, mode) = Group(b, order, mode)
      BY <2>1, <2>3
    <3> QED
      BY <1>0, <1>1, <3>1, <3>2 DEF NotAfter, ByTitle
  <2>4. CASE ~IsPsx(a) /\ ~IsPsx(b)
    <3>1. MustSwap(a, b, first, order, mode) <=> ByTitle(a, b)
      BY <2>2, <2>4 DEF PsxApart, IsPsx
    <3>2. Group(a, order, mode) = Group(b, order, mode)
      BY <2>1, <2>4
    <3> QED
      BY <1>0, <1>1, <3>1, <3>2 DEF NotAfter, ByTitle
  <2>5. CASE IsPsx(a) /\ ~IsPsx(b)
    <3>1. MustSwap(a, b, first, order, mode) <=> order = 1
      BY <2>2, <2>5 DEF PsxApart, IsPsx
    <3>2. /\ Group(a, order, mode) = IF order = 1 THEN 1 ELSE 0
          /\ Group(b, order, mode) = IF order = 1 THEN 0 ELSE 1
      BY <2>1, <2>5
    <3> QED
      BY <3>1, <3>2 DEF NotAfter
  <2>6. CASE ~IsPsx(a) /\ IsPsx(b)
    <3>1. MustSwap(a, b, first, order, mode) <=> order # 1
      BY <2>2, <2>6 DEF PsxApart, IsPsx
    <3>2. /\ Group(a, order, mode) = IF order = 1 THEN 0 ELSE 1
          /\ Group(b, order, mode) = IF order = 1 THEN 1 ELSE 0
      BY <2>1, <2>6
    <3> QED
      BY <3>1, <3>2 DEF NotAfter
  <2> QED
    BY <2>3, <2>4, <2>5, <2>6
<1> QED
  BY <1>1, <1>2, <1>3, <1>4

\* After entry n was compared with all later ones: it is not after any of
\* them, the first n - 1 are where they were and the others among themselves.
\* Sorting by title, the first comparisons bring the disc to the top.
LEMMA SettleOrders ==
  ASSUME NEW list \in Seq(GameEntry), Distinct(list), OneDisc(list),
         NEW order \in 0 .. 2, NEW mode \in Modes, mode # GAMEBASE_MODE => NoDisc(list),
         NEW l0 \in Shuffles(GameEntry, list), NEW n \in 1 .. Len(list)
  PROVE  LET x == SettleEntry(l0, n, order, mode)
         IN  /\ \A i \in 1 .. n - 1 : x[i] = l0[i]
             /\ \A j \in n .. Len(list) : \E i \in n .. Len(list) : x[j] = l0[i]
             /\ n > 1 \/ NoDisc(list) => \A j \in n + 1 .. Len(list) :
                  ~IsDisc(x[n]) /\ ~IsDisc(x[j]) => NotAfter(x[n], x[j], order, mode)
             /\ n = 1 /\ order = 0 /\ mode = GAMEBASE_MODE =>
                  \A j \in 1 .. Len(list) : IsDisc(x[j]) => j = 1
<1> DEFINE f == Passes(l0, n, order, mode)
           m == Len(l0) - n
           g(a) == Group(a, order, mode)
           Before(l, j) == IF ~IsDisc(l[n]) THEN NotAfter(l[n], l[j], order, mode) ELSE g(l[n]) <= g(l[j])
           A(l) == \A i \in 1 .. n - 1 : l[i] = l0[i]
           B(l) == \A j \in n .. Len(list) : \E i \in n .. Len(list) : l[j] = l0[i]
           C(l, k) == n > 1 \/ NoDisc(list) => \A j \in n + 1 .. n + k : ~IsDisc(l[j]) => Before(l, j)
           D(l, k) == n = 1 /\ order = 0 /\ mode = GAMEBASE_MODE =>
                        \A j \in 1 .. n + k : IsDisc(l[j]) => j = 1
           T == {k \in 0 .. m : A(f[k]) /\ B(f[k]) /\ C(f[k], k) /\ D(f[k], k)}
<1>1. /\ f[0] = l0 /\ m \in Nat
      /\ \A k \in 0 .. m : f[k] \in Shuffles(GameEntry, list)
      /\ SettleEntry(l0, n, order, mode) = f[m]
  BY PassesAre
<1>2. \A k \in 1 .. m : f[k] = IF MustSwap(f[k - 1][n], f[k - 1][n + k], n = 1, order, mode)
                               THEN Exchange(f[k - 1], n, n + k) ELSE f[k - 1]
  BY PassesAre
<1>3. Len(list) \in Nat /\ n + m = Len(list) /\ n \in Nat /\ n >= 1
  BY DEF Shuffles
<1>4. ASSUME NEW l \in Shuffles(GameEntry, list)
      PROVE  /\ l \in Seq(GameEntry) /\ Len(l) = Len(list)
             /\ \A i, j \in 1 .. Len(list) : IsDisc(l[i]) /\ IsDisc(l[j]) => i = j
             /\ NoDisc(list) => \A i \in 1 .. Len(list) : ~IsDisc(l[i])
             /\ \A i \in 1 .. Len(list) : l[i] \in GameEntry
  <2>1. /\ l \in Seq(GameEntry) /\ Len(l) = Len(list) /\ ToSet(l) = ToSet(list) /\ Distinct(l)
    BY DEF Shuffles
  <2>2. \A i \in 1 .. Len(list) : \E j \in 1 .. Len(list) : l[i] = list[j]
    <3>1. ToSet(l) = {l[i] : i \in 1 .. Len(l)} /\ ToSet(list) = {list[i] : i \in 1 .. Len(list)}
      BY <2>1, InToSet
    <3> QED
      BY <2>1, <3>1
  <2>3. \A i, j \in 1 .. Len(list) : IsDisc(l[i]) /\ IsDisc(l[j]) => l[i] = l[j]
    BY <2>2 DEF OneDisc
  <2>4. \A i, j \in 1 .. Len(list) : l[i] = l[j] => i = j
    BY <2>1 DEF Distinct
  <2>5. NoDisc(list) => \A i \in 1 .. Len(list) : ~IsDisc(l[i])
    BY <2>2 DEF NoDisc
  <2> QED
    BY <2>1, <2>3, <2>4, <2>5
<1> HIDE DEF f, m
<1>5. 0 \in T
  <2>1. A(l0)
    OBVIOUS
  <2>2. B(l0)
    OBVIOUS
  <2>3. C(l0, 0)
    BY <1>3
  <2>4. D(l0, 0)
    BY <1>3
  <2> HIDE DEF A, B, C, D
  <2> QED
    BY <1>1, <2>1, <2>2, <2>3, <2>4
<1>6. ASSUME NEW k0 \in 0 .. m - 1, k0 \in T
      PROVE  k0 + 1 \in T
  <2> DEFINE k == k0 + 1
             l == f[k0]
             x == f[k]
             p == n + k
  <2>1. k \in 1 .. m /\ k - 1 = k0 /\ p \in 1 .. Len(list) /\ p > n /\ p \in n + 1 .. Len(list)
        /\ k0 \in 0 .. m /\ k \in 0 .. m /\ p \in Int
    BY <1>1, <1>3
  <2>2. A(l) /\ B(l) /\ C(l, k0) /\ D(l, k0)
    BY <1>6
  <2>3. x = IF MustSwap(l[n], l[p], n = 1, order, mode) THEN Exchange(l, n, p) ELSE l
    BY <1>2, <2>1
  <2>4. l \in Shuffles(GameEntry, list) /\ x \in Shuffles(GameEntry, list)
    BY <1>1, <2>1
  <2> HIDE DEF l, x
  <2>5. /\ l \in Seq(GameEntry) /\ Len(l) = Len(list)
        /\ \A i, j \in 1 .. Len(list) : IsDisc(l[i]) /\ IsDisc(l[j]) => i = j
        /\ NoDisc(list) => \A i \in 1 .. Len(list) : ~IsDisc(l[i])
        /\ \A i \in 1 .. Len(list) : l[i] \in GameEntry
    BY <1>4, <2>4
  <2> DEFINE a == l[n]
             b == l[p]
             swap == MustSwap(a, b, n = 1, order, mode)
  <2>6. a \in GameEntry /\ b \in GameEntry
    BY <2>1, <2>5
  <2>7. mode # GAMEBASE_MODE => ~IsDisc(a) /\ ~IsDisc(b)
    BY <2>1, <2>5
  <2>8. n > 1 \/ ~IsDisc(b) =>
          /\ swap => g(a) > g(b) \/ (~IsDisc(a) /\ ~IsDisc(b) /\ ~NotAfter(a, b, order, mode))
          /\ ~swap => g(a) <= g(b) /\ (~IsDisc(a) /\ ~IsDisc(b) => NotAfter(a, b, order, mode))
    <3>1. SUFFICES ASSUME n > 1 \/ ~IsDisc(b)
                   PROVE  /\ swap => g(a) > g(b) \/ (~IsDisc(a) /\ ~IsDisc(b) /\ ~NotAfter(a, b, order, mode))
                          /\ ~swap => g(a) <= g(b) /\ (~IsDisc(a) /\ ~IsDisc(b) => NotAfter(a, b, order, mode))
      OBVIOUS
    <3>2. (n = 1) \in BOOLEAN /\ (~(n = 1) \/ ~IsDisc(b))
      BY <1>3, <3>1
    <3> HIDE DEF a, b
    <3> QED
      BY <2>6, <2>7, <3>2, SwapMeans
  <2>9. \A e \in GameEntry : g(e) \in {0, 1} /\ e.id \in Nat
    BY DEF Group, GameEntry
  <2> HIDE DEF a, b
  <2>10. swap => /\ \A i \in 1 .. Len(list) : x[i] = IF i = p THEN a ELSE IF i = n THEN b ELSE l[i]
    BY <2>1, <2>3, <2>5 DEF Exchange, a, b
  <2>11. ~swap => x = l
    BY <2>3 DEF a, b
  <2>12. A(x)
    <3>1. SUFFICES ASSUME NEW i \in 1 .. n - 1 PROVE x[i] = l0[i]
      OBVIOUS
    <3>2. i \in 1 .. Len(list) /\ i # p /\ i # n
      BY <1>3, <2>1
    <3>3. x[i] = l[i]
      <4>1. CASE swap
        BY <2>10, <3>2, <4>1
      <4>2. CASE ~swap
        BY <2>11, <4>2
      <4> QED
        BY <4>1, <4>2
    <3> QED
      BY <2>2, <3>3
  <2>13. B(x)
    <3>1. CASE ~swap
      BY <2>2, <2>11, <3>1
    <3>2. CASE swap
      <4>1. SUFFICES ASSUME NEW j \in n .. Len(list)
                     PROVE  \E i \in n .. Len(list) : x[j] = l0[i]
        OBVIOUS
      <4>2. \E q \in n .. Len(list) : x[j] = l[q]
        <5>1. n \in n .. Len(list) /\ p \in n .. Len(list) /\ j \in 1 .. Len(list)
          BY <1>3, <2>1
        <5>2. x[j] = IF j = p THEN a ELSE IF j = n THEN b ELSE l[j]
          BY <2>10, <3>2, <5>1
        <5> QED
          BY <5>1, <5>2 DEF a, b
      <4> QED
        BY <2>2, <4>2
    <3> QED
      BY <3>1, <3>2
  <2>14. C(x, k)
    <3>1. SUFFICES ASSUME n > 1 \/ NoDisc(list), NEW j \in n + 1 .. n + k, ~IsDisc(x[j])
                   PROVE  Before(x, j)
      OBVIOUS
    <3>2. n > 1 \/ ~IsDisc(b)
      BY <2>1, <2>5, <3>1 DEF b
    <3>3. n \in 1 .. Len(list) /\ j \in 1 .. Len(list) /\ j # n /\ n # p
      BY <1>3, <2>1
    <3>4. j # p => j \in n + 1 .. n + k0
      BY <1>3, <2>1
    <3>5. l[j] \in GameEntry
      BY <2>5, <3>3
    <3>6. CASE ~swap
      <4>1. x[n] = a /\ x[j] = l[j] /\ x[p] = b
        BY <2>11, <3>6 DEF a, b
      <4>2. CASE j = p
        BY <2>6, <2>8, <2>9, <3>1, <3>2, <3>6, <4>1, <4>2
      <4>3. CASE j # p
        <5>1. Before(l, j)
          BY <2>2, <3>1, <3>4, <4>1, <4>3
        <5> QED
          BY <4>1, <5>1 DEF a
      <4> QED
        BY <4>2, <4>3
    <3>7. CASE swap
      <4>1. x[n] = b /\ x[p] = a /\ (j # p => x[j] = l[j])
        BY <2>1, <2>10, <3>3, <3>7
      <4>2. g(a) > g(b) \/ (~IsDisc(a) /\ ~IsDisc(b) /\ ~NotAfter(a, b, order, mode))
        BY <2>8, <3>2, <3>7
      <4>3. CASE j = p
        <5>1. ~IsDisc(a) /\ x[j] = a
          BY <3>1, <4>1, <4>3
        <5> QED
          BY <2>6, <2>9, <4>1, <4>2, <5>1 DEF NotAfter
      <4>4. CASE j # p
        <5>1. IF ~IsDisc(a) THEN NotAfter(a, l[j], order, mode) ELSE g(a) <= g(l[j])
          BY <2>2, <3>1, <3>4, <4>1, <4>4 DEF a
        <5> QED
          BY <2>6, <2>9, <3>5, <4>1, <4>2, <4>4, <5>1 DEF NotAfter
      <4> QED
        BY <4>3, <4>4
    <3> QED
      BY <3>6, <3>7
  <2>15. D(x, k)
    <3>1. SUFFICES ASSUME n = 1, order = 0, mode = GAMEBASE_MODE, NEW j \in 1 .. n + k, IsDisc(x[j])
                   PROVE  j = 1
      OBVIOUS
    <3>2. j \in 1 .. Len(list) /\ (j # p => j \in 1 .. n + k0) /\ 1 \in 1 .. Len(list) /\ p # 1
      BY <1>3, <2>1, <3>1
    <3>3. \A q \in 1 .. n + k0 : IsDisc(l[q]) => q = 1
      BY <2>2, <3>1
    <3>4. swap <=> IsDisc(b) \/ ByTitle(a, b)
      BY <3>1 DEF MustSwap, DiscFirst
    <3>5. CASE swap
      <4>1. x[j] = IF j = p THEN a ELSE IF j = n THEN b ELSE l[j]
        BY <2>10, <3>2, <3>5
      <4>2. ~IsDisc(a)
        <5>1. IsDisc(b) => ~IsDisc(a)
          BY <2>1, <2>5, <3>1, <3>2 DEF a, b
        <5>2. ByTitle(a, b) => ~IsDisc(a)
          BY DEF ByTitle
        <5> QED
          BY <3>4, <3>5, <5>1, <5>2
      <4> QED
        BY <3>1, <3>2, <3>3, <4>1, <4>2
    <3>6. CASE ~swap
      <4>1. ~IsDisc(l[p]) /\ x[j] = l[j]
        BY <2>11, <3>4, <3>6 DEF b
      <4> QED
        BY <3>1, <3>2, <3>3, <4>1
    <3> QED
      BY <3>5, <3>6
  <2> HIDE DEF A, B, C, D
  <2> QED
    BY <2>1, <2>12, <2>13, <2>14, <2>15 DEF x
<1>7. m \in T
  <2> HIDE DEF T
  <2>0. m \in Nat
    BY <1>1
  <2>1. \A k \in 0 .. m : k \in T
    BY <1>5, <1>6, <2>0, UpTo
  <2>2. m \in 0 .. m
    BY <2>0
  <2> QED
    BY <2>1, <2>2
<1>8. A(f[m]) /\ B(f[m]) /\ C(f[m], m) /\ D(f[m], m)
  <2> HIDE DEF A, B, C, D
  <2> QED
    BY <1>7
<1> DEFINE y == f[m]
<1>9. A(y) /\ B(y) /\ C(y, m) /\ D(y, m) /\ y = SettleEntry(l0, n, order, mode)
  BY <1>1, <1>8
<1> HIDE DEF y
<1>10. n + m = Len(list) /\ \A i, j : NotAfter(y[i], y[j], order, mode) \in BOOLEAN
  BY <1>3 DEF NotAfter
<1> QED
  BY <1>9, <1>10

\* sort_entries2 sorts: whatever the list was, the disc aside.
LEMMA SortOrders ==
  ASSUME NEW list \in Seq(GameEntry), Distinct(list), OneDisc(list),
         NEW order \in 0 .. 2, NEW mode \in Modes, mode # GAMEBASE_MODE => NoDisc(list)
  PROVE  Ordered(sort_entries2(list, order, mode), order, mode)
<1> DEFINE f == Settling(list, order, mode)
           L == Len(list)
           x == sort_entries2(list, order, mode)
           First(l, i, j) == ~IsDisc(l[i]) /\ ~IsDisc(l[j]) /\ (i > 1 \/ NoDisc(list))
                               => NotAfter(l[i], l[j], order, mode)
           A(l, n) == \A i \in 1 .. n : \A j \in i + 1 .. L : First(l, i, j)
           D(l, n) == n >= 1 /\ order = 0 /\ mode = GAMEBASE_MODE =>
                        \A j \in 1 .. L : IsDisc(l[j]) => j = 1
           T == {n \in 0 .. L : A(f[n], n) /\ D(f[n], n)}
<1>1. /\ f[0] = list /\ x = f[L] /\ L \in Nat
      /\ \A n \in 1 .. L : f[n] = SettleEntry(f[n - 1], n, order, mode)
      /\ \A n \in 0 .. L : f[n] \in Shuffles(GameEntry, list)
  BY SettlingIs
<1> HIDE DEF f, x
<1>2. 0 \in T
  BY <1>1
<1>3. ASSUME NEW n0 \in 0 .. L - 1, n0 \in T
      PROVE  n0 + 1 \in T
  <2> DEFINE n == n0 + 1
             l == f[n0]
             y == f[n]
  <2>1. n \in 1 .. L /\ n - 1 = n0 /\ n0 \in 0 .. L /\ n \in 0 .. L
    BY <1>1
  <2>2. A(l, n0) /\ D(l, n0)
    BY <1>3
  <2>3. l \in Shuffles(GameEntry, list) /\ y = SettleEntry(l, n, order, mode)
    BY <1>1, <2>1
  <2> HIDE DEF l, y
  <2>4. /\ \A i \in 1 .. n - 1 : y[i] = l[i]
        /\ \A j \in n .. L : \E i \in n .. L : y[j] = l[i]
        /\ n > 1 \/ NoDisc(list) => \A j \in n + 1 .. L :
             ~IsDisc(y[n]) /\ ~IsDisc(y[j]) => NotAfter(y[n], y[j], order, mode)
        /\ n = 1 /\ order = 0 /\ mode = GAMEBASE_MODE =>
             \A j \in 1 .. L : IsDisc(y[j]) => j = 1
    <3>1. SettleEntry(l, n, order, mode) = y
      BY <2>3
    <3> HIDE DEF n
    <3>2. LET z == SettleEntry(l, n, order, mode)
          IN  /\ \A i \in 1 .. n - 1 : z[i] = l[i]
              /\ \A j \in n .. Len(list) : \E i \in n .. Len(list) : z[j] = l[i]
              /\ n > 1 \/ NoDisc(list) => \A j \in n + 1 .. Len(list) :
                   ~IsDisc(z[n]) /\ ~IsDisc(z[j]) => NotAfter(z[n], z[j], order, mode)
              /\ n = 1 /\ order = 0 /\ mode = GAMEBASE_MODE =>
                   \A j \in 1 .. Len(list) : IsDisc(z[j]) => j = 1
      BY <2>1, <2>3, SettleOrders
    <3> QED
      BY <3>1, <3>2
  <2>5. A(y, n)
    <3>1. SUFFICES ASSUME NEW i \in 1 .. n, NEW j \in i + 1 .. L PROVE First(y, i, j)
      OBVIOUS
    <3>2. CASE i = n
      BY <1>1, <2>1, <2>4, <3>1, <3>2
    <3>3. CASE i # n
      <4>1. i \in 1 .. n0 /\ y[i] = l[i]
        BY <1>1, <2>1, <2>4, <3>3
      <4>2. \E q \in i + 1 .. L : y[j] = l[q]
        <5>1. CASE j < n
          <6>1. j \in 1 .. n - 1 /\ j \in i + 1 .. L
            BY <1>1, <2>1, <3>1, <5>1
          <6>2. y[j] = l[j]
            BY <2>4, <6>1
          <6> QED
            BY <6>1, <6>2
        <5>2. CASE j >= n
          <6>1. j \in n .. L
            BY <1>1, <2>1, <5>2
          <6>2. PICK q \in n .. L : y[j] = l[q]
            BY <2>4, <6>1
          <6>3. q \in i + 1 .. L
            BY <1>1, <2>1, <4>1
          <6> QED
            BY <6>2, <6>3
        <5> QED
          BY <1>1, <2>1, <5>1, <5>2
      <4>3. PICK q \in i + 1 .. L : y[j] = l[q]
        BY <4>2
      <4>4. First(l, i, q)
        BY <2>2, <4>1, <4>3
      <4> QED
        BY <4>1, <4>3, <4>4
    <3> QED
      BY <3>2, <3>3
  <2>6. D(y, n)
    <3>1. SUFFICES ASSUME order = 0, mode = GAMEBASE_MODE, NEW j \in 1 .. L, IsDisc(y[j])
                   PROVE  j = 1
      OBVIOUS
    <3>2. CASE n = 1
      BY <2>4, <3>1, <3>2
    <3>3. CASE n > 1
      <4>1. \A q \in 1 .. L : IsDisc(l[q]) => q = 1
        BY <1>1, <2>1, <2>2, <3>1, <3>3
      <4>2. CASE j < n
        <5>1. y[j] = l[j]
          BY <1>1, <2>1, <2>4, <4>2
        <5> QED
          BY <3>1, <4>1, <5>1
      <4>3. CASE j >= n
        <5>1. PICK q \in n .. L : y[j] = l[q]
          BY <1>1, <2>1, <2>4, <4>3
        <5>2. q \in 1 .. L /\ q # 1
          BY <1>1, <2>1, <3>3
        <5> QED
          BY <3>1, <4>1, <5>1, <5>2
      <4> QED
        BY <1>1, <2>1, <4>2, <4>3
    <3> QED
      BY <1>1, <2>1, <3>2, <3>3
  <2> HIDE DEF A, D
  <2> QED
    BY <2>1, <2>5, <2>6 DEF y
<1>4. L \in T
  <2>1. \A n \in 0 .. L : n \in T
    <3> HIDE DEF T
    <3> QED
      BY <1>1, <1>2, <1>3, UpTo
  <2> QED
    BY <1>1, <2>1
<1>5. A(x, L) /\ D(x, L)
  BY <1>1, <1>4
<1>6. /\ x \in Seq(GameEntry) /\ Len(x) = L /\ ToSet(x) = ToSet(list) /\ DOMAIN x = 1 .. L
      /\ \A i \in 1 .. L : x[i] \in GameEntry
  <2>1. x \in Shuffles(GameEntry, list)
    BY <1>1
  <2> QED
    BY <1>1, <2>1 DEF Shuffles
<1>7. (\E i \in 1 .. L : IsDisc(list[i])) <=> (\E i \in 1 .. L : IsDisc(x[i]))
  <2>1. ToSet(x) = {x[i] : i \in 1 .. L} /\ ToSet(list) = {list[i] : i \in 1 .. L}
    BY SMTT(30), <1>1, <1>6, InToSet
  <2>2. {x[i] : i \in 1 .. L} = {list[i] : i \in 1 .. L}
    BY <1>6, <2>1
  <2> QED
    BY <2>2
<1> DEFINE discs == {n \in DOMAIN x : IsDisc(x[n])}
           odd == IF discs # {} /\ order # 0 THEN {1} ELSE {}
<1>8. NoDisc(list) <=> discs = {}
  BY <1>1, <1>6, <1>7 DEF NoDisc
<1>9. order = 0 => discs \subseteq {1}
  <2>1. mode # GAMEBASE_MODE => discs = {}
    BY <1>8
  <2>2. CASE order = 0 /\ mode = GAMEBASE_MODE /\ L >= 1
    BY <1>5, <1>6, <2>2
  <2>3. L = 0 => discs = {}
    BY <1>6
  <2> QED
    BY <1>1, <2>1, <2>2, <2>3
<1>10. ASSUME NEW n \in DOMAIN x \ (discs \cup odd), NEW k \in DOMAIN x \ (discs \cup odd), n < k
       PROVE  NotAfter(x[n], x[k], order, mode)
  <2>1. n \in 1 .. L /\ k \in n + 1 .. L /\ ~IsDisc(x[n]) /\ ~IsDisc(x[k])
    BY <1>1, <1>6, <1>10
  <2>2. n > 1 \/ NoDisc(list)
    <3>1. CASE discs = {}
      BY <1>8, <3>1
    <3>2. CASE discs # {} /\ order # 0
      BY <1>10, <2>1, <3>2
    <3>3. CASE discs # {} /\ order = 0
      <4>1. discs = {1}
        BY <1>9, <3>3
      <4> QED
        BY <1>10, <2>1, <4>1
    <3> QED
      BY <3>1, <3>2, <3>3
  <2> QED
    BY <1>5, <2>1, <2>2
<1> HIDE DEF discs, odd
<1>11. \A n, k \in DOMAIN x \ (discs \cup odd) : n < k =>
          LET gn == Group(x[n], order, mode)
              gm == Group(x[k], order, mode)
          IN  gn < gm \/ (gn = gm /\ x[n].id <= x[k].id)
  BY <1>10 DEF NotAfter
<1> QED
  BY <1>9, <1>11 DEF Ordered, discs, odd, x

-----------------------------------------------------------------------------
(* The invariant.                                                          *)

Scannable == {"hdd", "usb", "bdvd"}

(* Only one of the configurations has the disc, the other the NTFS         *)
(* volumes; between two turns of the loop all that was seen is listed.     *)
DevicesSound ==
  /\ cobra \in BOOLEAN
  /\ disk \in [Devices -> SUBSET GameFile] /\ \A d \in Devices : disk[d] \subseteq Library[d]
  /\ plugged \subseteq Devices /\ "hdd" \in plugged
  /\ "bdvd" \in plugged => ~cobra /\ disk["bdvd"] # {}
  /\ "ntfs" \in plugged => cobra
  /\ fdevices \subseteq Scannable /\ fdevices_old = fdevices
  /\ "bdvd" \in fdevices => ~cobra
  /\ forcedevices \subseteq Scannable
  /\ "bdvd" \in forcedevices => cobra
  /\ old_ntfs_ports \in BOOLEAN /\ (old_ntfs_ports => cobra)

ScreenSound ==
  /\ mode_homebrew \in Modes
  /\ game_list_category \in 0 .. 2 /\ sort_mode \in 0 .. 2
  /\ mode_favourites \in BOOLEAN /\ havefavourites \in BOOLEAN /\ cramped \in BOOLEAN
  /\ favourites \in Favourites /\ kept \in [Modes -> Favourites]
  /\ saved \in [Modes -> [Slots -> Nat] \cup {Cut}] /\ unsaved \subseteq Modes

(* A list: no entry twice, at most one disc, and one only while a disc is  *)
(* listed; full is set if it ever reached the end of the array.            *)
ListSound(list, now, mode, full) ==
  /\ list \in Seq(GameEntry) /\ Distinct(list) /\ Overrun(list)
  /\ \A e, f \in ToSet(list) : IsDisc(e) /\ IsDisc(f) => e = f
  /\ \A e \in ToSet(list) : IsDisc(e) => "bdvd" \in now /\ mode = GAMEBASE_MODE
  /\ ~full => Len(list) < Capacity

(* The entries of a device are those the mode and the category show.       *)
ShownOf(d) == Made(disk[d], d, ShownKinds(d))
DeviceListed(list, d, there) ==
  \A e \in GameEntry : e.dev = d => (e \in ToSet(list) <=> there /\ e \in ShownOf(d))

(* A list nothing was ever cut off from: now are the devices it lists and  *)
(* force those that are to be listed again.                                *)
Uncut(list, now, force) ==
  /\ \A d \in {"hdd", "usb"} \ force : DeviceListed(list, d, d \in now)
  /\ "bdvd" \in now /\ mode_homebrew = GAMEBASE_MODE => \E e \in ToSet(list) : IsDisc(e)

(* A deleted PSX game of an NTFS volume stays.                             *)
VolumesListed(list) ==
  /\ ShownOf("ntfs") \subseteq ToSet(list)
  /\ \A e \in ToSet(list) : IsNtfs(e) => e \in ShownOf("ntfs") \/ e.kind = "psx"

ListedSound ==
  /\ ListSound(directories, fdevices, mode_homebrew, cramped)
  /\ fdevices = {} => directories = << >>
  /\ \A e \in ToSet(directories) : IsNtfs(e) => old_ntfs_ports
  /\ ~cramped => Uncut(directories, fdevices, forcedevices)
  /\ ~cramped /\ fdevices # {} /\ old_ntfs_ports => VolumesListed(directories)

(* A favourite is where its index says, and none is there twice, in none   *)
(* of the modes.                                                           *)
FavouriteAt(f, list) ==
  f.index >= 0 => f.index < Len(list) /\ list[f.index + 1].id = f.id
OnceEach(f) == \A s, t \in Slots : f[s].id = f[t].id /\ f[s].id # 0 => s = t
FavouritesSound ==
  /\ fdevices # {} => \A s \in Slots : FavouriteAt(favourites[s], directories)
  /\ OnceEach(favourites) /\ \A m \in Modes : OnceEach(kept[m])
  /\ \A m \in {GAMEBASE_MODE, HOMEBREW_MODE} \ unsaved :
       saved[m] = Ids(IF mode_homebrew = m THEN favourites ELSE kept[m])

ListsInv == DevicesSound /\ ScreenSound /\ ListedSound /\ FavouritesSound
-----------------------------------------------------------------------------
(* One turn of the main loop.                                               *)

Scan == [list : Seq(GameEntry), now : SUBSET Scannable, old : SUBSET Scannable,
         force : SUBSET Scannable, insert : BOOLEAN, remove : BOOLEAN, full : BOOLEAN]

(* A turn between two devices: what it makes of the list it started with.  *)
ScanSound(sc) ==
  /\ sc \in Scan /\ sc.now = sc.old /\ ~sc.remove
  /\ "bdvd" \in sc.now => ~cobra
  /\ "bdvd" \in sc.force => cobra
  /\ ListSound(sc.list, sc.now, mode_homebrew, sc.full)
  /\ \A e \in ToSet(sc.list) : IsNtfs(e) => e \in ToSet(directories)
  /\ ~sc.full => /\ ~cramped /\ Uncut(sc.list, sc.now, sc.force)
                 /\ \A e \in ToSet(directories) : IsNtfs(e) => e \in ToSet(sc.list)
  /\ IF sc.insert THEN Ordered(sc.list, sort_mode, mode_homebrew)
     ELSE sc.list = directories /\ sc.now = fdevices

\* A list that is sound stays so when it is sorted.
LEMMA SortedSound ==
  ASSUME NEW x, NEW now, NEW order \in 0 .. 2, NEW mode \in Modes, ListSound(x, now, mode, TRUE)
  PROVE  LET y == sort_entries2(x, order, mode)
         IN  /\ ListSound(y, now, mode, TRUE) /\ ToSet(y) = ToSet(x) /\ Len(y) = Len(x)
             /\ Ordered(y, order, mode)
<1> DEFINE y == sort_entries2(x, order, mode)
<1>1. x \in Seq(GameEntry) /\ Distinct(x) /\ Overrun(x)
  BY DEF ListSound
<1>2. y \in Shuffles(GameEntry, x)
  BY <1>1, SortShuffles
<1>3. y \in Seq(GameEntry) /\ Len(y) = Len(x) /\ ToSet(y) = ToSet(x) /\ Distinct(y)
  BY <1>1, <1>2 DEF Shuffles
<1>4. Overrun(y)
  BY <1>1, <1>2, OverrunShuffled
<1>5. OneDisc(x) /\ (mode # GAMEBASE_MODE => NoDisc(x))
  <2>1. \A i \in 1 .. Len(x) : x[i] \in ToSet(x)
    BY <1>1, InToSet
  <2>2. \A i, j \in 1 .. Len(x) : IsDisc(x[i]) /\ IsDisc(x[j]) => x[i] = x[j]
    BY <2>1 DEF ListSound
  <2>3. OneDisc(x)
    BY <1>1, <2>2 DEF OneDisc, Distinct
  <2>4. mode # GAMEBASE_MODE => NoDisc(x)
    BY <2>1 DEF ListSound, NoDisc
  <2> QED
    BY <2>3, <2>4
<1>6. Ordered(y, order, mode)
  BY <1>1, <1>5, SortOrders
<1> HIDE DEF y
<1>7. ListSound(y, now, mode, TRUE)
  BY <1>3, <1>4 DEF ListSound
<1> QED
  BY <1>3, <1>6, <1>7 DEF y

\* The same, as the screen asks for it.
LEMMA SortSound ==
  ASSUME NEW x, NEW now, ScreenSound, ListSound(x, now, mode_homebrew, TRUE)
  PROVE  /\ ListSound(Sort(x), now, mode_homebrew, TRUE)
         /\ ToSet(Sort(x)) = ToSet(x) /\ Len(Sort(x)) = Len(x)
         /\ Ordered(Sort(x), sort_mode, mode_homebrew)
<1>1. sort_mode \in 0 .. 2 /\ mode_homebrew \in Modes
  BY DEF ScreenSound
<1> QED
  BY <1>1, SortedSound DEF Sort

\* What a scan makes of the entries of a device is what the mode and the
\* category show of it.
LEMMA NewListRefills ==
  ASSUME DevicesSound, ScreenSound, NEW sc, sc.list \in Seq(GameEntry), NEW dev \in {"hdd", "usb"}
  PROVE  Refilled(sc.list, NewList(sc, dev), dev, IF dev \in sc.now THEN ShownOf(dev) ELSE {})
<1> DEFINE list == sc.list
           x == NewList(sc, dev)
           there == dev \in sc.now
           game == mode_homebrew = GAMEBASE_MODE
<1>1. /\ dev \in Devices /\ disk[dev] \in SUBSET GameFile /\ IsFiniteSet(disk[dev])
      /\ cobra \in BOOLEAN /\ list \in Seq(GameEntry)
  <2>1. dev \in Devices
    BY DEF Devices
  <2>2. disk[dev] \in SUBSET GameFile /\ disk[dev] \subseteq Library[dev] /\ cobra \in BOOLEAN
    BY <2>1 DEF DevicesSound
  <2>3. IsFiniteSet(Library[dev])
    BY <2>1, GameListsAssumption
  <2> QED
    BY <2>1, <2>2, <2>3, FS_Subset
<1>2. \A k : Made(disk[dev], dev, k) \subseteq GameEntry /\ \A e \in Made(disk[dev], dev, k) : e.dev = dev
  <2>1. ASSUME NEW k
        PROVE  \A e \in Made(disk[dev], dev, k) : e \in GameEntry /\ e.dev = dev
    BY <1>1 DEF Made, GameFile, GameEntry
  <2> QED
    BY <2>1
<1>3. delete_entries(list, dev) \in Seq(GameEntry)
  BY <1>1, DeleteEntries
<1>4. CASE there /\ dev = "hdd" /\ ~game /\ cobra
  <2> DEFINE new == EntriesOf(disk[dev], dev, {"film"})
             shown == Made(disk[dev], dev, {"film"})
  <2>1. x = fill_iso(delete_entries(list, dev), new)
    BY <1>4 DEF NewList
  <2>2. new \in Seq(GameEntry) /\ Distinct(new) /\ ToSet(new) = shown
    <3>1. LET z == IF TRUE THEN EntriesOf(disk[dev], dev, {"film"}) ELSE << >>
          IN  /\ z \in Seq(GameEntry) /\ Distinct(z)
              /\ ToSet(z) = Made(disk[dev], dev, IF TRUE THEN {"film"} ELSE {})
      BY <1>1, ShownEntries
    <3> QED
      BY <3>1
  <2>3. \A e \in shown : e.dev = dev
    BY <1>2
  <2>4. ShownOf(dev) = shown
    BY <1>4 DEF ShownOf, ShownKinds, HOMEBREW_MODE
  <2> HIDE DEF new, shown, x, list
  <2>5. Grown(delete_entries(list, dev), x, shown)
    BY <1>3, <2>1, <2>2, IsoGrows
  <2>6. Refilled(list, x, dev, shown)
    BY <1>1, <2>3, <2>5, GrownIsRefilled
  <2> QED
    BY <1>4, <2>4, <2>6 DEF list, x
<1>5. CASE there /\ (game \/ dev # "hdd")
  <2> DEFINE sel == IF game THEN GAMEBASE_MODE ELSE HOMEBREW_MODE
             kinds == FilledKinds(dev, sel, mode_homebrew, game_list_category, cobra)
                        \cup FilledFolders(sel, mode_homebrew, game_list_category)
  <2>1. x = fill_entries_from_device(list, dev, disk[dev], sel, mode_homebrew, game_list_category, cobra)
    BY <1>5 DEF NewList
  <2>2. Refilled(list, x, dev, Made(disk[dev], dev, kinds))
    BY <1>1, <2>1, FillEntries
  <2>3. kinds = ShownKinds(dev)
    <3>1. /\ mode_homebrew \in {0, 2, 3} /\ game_list_category \in 0 .. 2 /\ dev \in {"hdd", "usb"}
          /\ "ntfs" # "hdd" /\ "ntfs" # "usb"
      BY DEF ScreenSound, Modes, GAMEBASE_MODE, HOMEBREW_MODE, FILM_MODE
    <3>2. CASE mode_homebrew = 0
      BY <3>1, <3>2 DEF FilledKinds, FilledFolders, ShownKinds, Games, GAMEBASE_MODE, HOMEBREW_MODE
    <3>3. CASE mode_homebrew # 0
      <4>1. dev = "usb" /\ sel = 2
        BY <1>5, <3>1, <3>3 DEF GAMEBASE_MODE, HOMEBREW_MODE
      <4> QED
        BY <3>1, <3>3, <4>1 DEF FilledKinds, FilledFolders, ShownKinds, GAMEBASE_MODE, HOMEBREW_MODE
    <3> QED
      BY <3>2, <3>3
  <2> QED
    BY <1>5, <2>2, <2>3 DEF ShownOf
<1>6. CASE ~there \/ (dev = "hdd" /\ ~game /\ ~cobra)
  <2>1. x = delete_entries(list, dev)
    BY <1>6 DEF NewList
  <2>2. (IF there THEN ShownOf(dev) ELSE {}) = {}
    <3>1. CASE dev = "hdd" /\ ~game /\ ~cobra
      <4>1. ShownKinds(dev) = {}
        BY <3>1 DEF ShownKinds
      <4> QED
        BY <4>1 DEF ShownOf, Made
    <3>2. CASE ~there
      BY <3>2
    <3> QED
      BY <1>6, <3>1, <3>2
  <2> HIDE DEF x, list
  <2>3. Grown(delete_entries(list, dev), x, {})
    BY <1>3, <2>1, GrownByNothing
  <2>4. Refilled(list, x, dev, {})
    BY <1>1, <2>3, GrownIsRefilled
  <2> QED
    BY <2>2, <2>4 DEF x, list
<1> QED
  BY <1>1, <1>4, <1>5, <1>6

\* The scan of the hard disk or of the USB devices.
LEMMA RefreshDeviceSound ==
  ASSUME DevicesSound, ScreenSound, ListedSound, NEW sc, ScanSound(sc), NEW dev \in {"hdd", "usb"}
  PROVE  LET z == RefreshDevice(Stat(sc, dev), dev)
         IN  /\ ScanSound(z) /\ z.force = sc.force \ {dev}
             /\ z.now = IF dev \in plugged THEN sc.now \cup {dev} ELSE sc.now \ {dev}
<1> DEFINE s1 == Stat(sc, dev)
           z == RefreshDevice(s1, dev)
<1>1. /\ sc \in Scan /\ sc.now = sc.old /\ ~sc.remove /\ dev \in Scannable /\ dev # "bdvd"
      /\ sc.list \in Seq(GameEntry)
  BY DEF ScanSound, Scannable, Scan
<1>2. /\ s1 = [sc EXCEPT !.now = s1.now] /\ s1 \in Scan
      /\ s1.now = IF dev \in plugged THEN sc.now \cup {dev} ELSE sc.now \ {dev}
  BY <1>1 DEF Stat, Scan
<1>3. /\ s1.list = sc.list /\ s1.old = sc.old /\ s1.force = sc.force /\ s1.insert = sc.insert
      /\ s1.remove = sc.remove /\ s1.full = sc.full
  BY <1>1, <1>2 DEF Scan
<1> HIDE DEF s1
<1>4. CASE s1.now # s1.old \/ dev \in s1.force
  <2> DEFINE x == NewList(s1, dev)
             y == Sort(x)
             shown == IF dev \in s1.now THEN ShownOf(dev) ELSE {}
             now == s1.now
  <2>1. Refilled(sc.list, x, dev, shown)
    BY <1>1, <1>3, NewListRefills
  <2>2. ListSound(sc.list, sc.now, mode_homebrew, sc.full)
    BY DEF ScanSound
  <2>3. "bdvd" \in now <=> "bdvd" \in sc.now
    BY <1>1, <1>2
  <2> HIDE DEF x, shown, now
  <2>4. ListSound(x, now, mode_homebrew, TRUE)
    <3>1. \A e \in ToSet(x) : IsDisc(e) => e \in ToSet(sc.list)
      BY <1>1, <2>1 DEF Refilled, IsDisc
    <3> QED
      BY <2>1, <2>2, <2>3, <3>1 DEF ListSound, Refilled
  <2>5. /\ ListSound(y, now, mode_homebrew, TRUE)
        /\ ToSet(y) = ToSet(x) /\ Len(y) = Len(x) /\ y \in Seq(GameEntry)
        /\ Ordered(y, sort_mode, mode_homebrew)
    <3>1. /\ ListSound(y, now, mode_homebrew, TRUE)
          /\ ToSet(y) = ToSet(x) /\ Len(y) = Len(x)
          /\ Ordered(y, sort_mode, mode_homebrew)
      BY <2>4, SortSound
    <3> QED
      BY <3>1 DEF ListSound
  <2> HIDE DEF y
  <2>6. z = [s1 EXCEPT !.list = y, !.full = s1.full \/ Len(y) >= Capacity, !.insert = TRUE,
                       !.force = s1.force \ {dev}, !.old = (s1.old \ {dev}) \cup (s1.now \cap {dev})]
    BY <1>2, <1>4 DEF RefreshDevice, ToRefresh, Seen, Installed, x, y, Scan
  <2>7. /\ z.list = y /\ (z.full <=> (sc.full \/ Len(y) >= Capacity)) /\ z.insert
        /\ z.force = sc.force \ {dev} /\ z.old = now /\ z.now = now /\ ~z.remove /\ z \in Scan
    <3>1. (s1.old \ {dev}) \cup (s1.now \cap {dev}) = s1.now
      BY <1>1, <1>2, <1>3
    <3>2. /\ s1.full \in BOOLEAN /\ s1.list \in Seq(GameEntry) /\ s1.now \in SUBSET Scannable
          /\ s1.force \in SUBSET Scannable /\ s1.insert \in BOOLEAN /\ s1.remove \in BOOLEAN
      BY <1>2 DEF Scan
    <3>3. z = [list |-> y, now |-> s1.now, old |-> s1.now, force |-> s1.force \ {dev}, insert |-> TRUE,
               remove |-> s1.remove, full |-> s1.full \/ Len(y) >= Capacity]
      BY <1>2, <2>6, <3>1 DEF Scan
    <3>4. z \in Scan
      BY <2>5, <3>2, <3>3 DEF Scan
    <3>5. /\ z.list = y /\ z.insert /\ z.force = s1.force \ {dev} /\ z.old = s1.now /\ z.now = s1.now
          /\ z.remove = s1.remove
      BY <3>3
    <3>6. z.full <=> (s1.full \/ Len(y) >= Capacity)
      <4> DEFINE b == s1.full \/ Len(y) >= Capacity
      <4>1. z = [list |-> y, now |-> s1.now, old |-> s1.now, force |-> s1.force \ {dev}, insert |-> TRUE,
                 remove |-> s1.remove, full |-> b]
        BY <3>3
      <4> HIDE DEF b
      <4>2. z.full = b
        BY <4>1
      <4> QED
        BY <4>2 DEF b
    <3> QED
      BY <1>1, <1>3, <3>4, <3>5, <3>6 DEF now
  <2>8. ~z.full => Len(y) < Capacity /\ ~sc.full
    <3>1. Len(y) \in Nat /\ Capacity \in Nat
      BY <2>5, InToSet, CapacityAssumption
    <3>2. ~z.full => ~sc.full /\ ~(Len(y) >= Capacity)
      BY <2>7
    <3> QED
      BY <3>1, <3>2
  <2>9. \A e : e.dev # dev => (e \in ToSet(y) <=> e \in ToSet(sc.list))
    BY <2>1, <2>5 DEF Refilled
  <2>10. ~z.full => Uncut(y, now, z.force)
    <3>1. SUFFICES ASSUME ~z.full PROVE Uncut(y, now, z.force)
      OBVIOUS
    <3>2. Uncut(sc.list, sc.now, sc.force)
      BY <2>8, <3>1 DEF ScanSound
    <3>3. DeviceListed(y, dev, dev \in now)
      BY <2>1, <2>5, <2>8, <3>1 DEF DeviceListed, Refilled, shown, now
    <3>4. ASSUME NEW d \in {"hdd", "usb"} \ z.force, d # dev
          PROVE  DeviceListed(y, d, d \in now)
      <4>1. d \notin sc.force /\ (d \in now <=> d \in sc.now)
        BY <1>2, <2>7, <3>4 DEF now
      <4>2. DeviceListed(sc.list, d, d \in sc.now)
        BY <3>2, <4>1 DEF Uncut
      <4> QED
        BY <2>9, <3>4, <4>1, <4>2 DEF DeviceListed
    <3>5. "bdvd" \in now /\ mode_homebrew = GAMEBASE_MODE => \E e \in ToSet(y) : IsDisc(e)
      BY <1>1, <2>3, <2>9, <3>2 DEF Uncut, IsDisc
    <3> QED
      BY <3>3, <3>4, <3>5 DEF Uncut
  <2>11. /\ \A e \in ToSet(y) : IsNtfs(e) => e \in ToSet(directories)
         /\ ~z.full => \A e \in ToSet(directories) : IsNtfs(e) => e \in ToSet(y)
    <3>1. \A e : IsNtfs(e) => e.dev # dev
      BY DEF IsNtfs
    <3> QED
      BY <2>8, <2>9, <3>1 DEF ScanSound
  <2>12. ListSound(y, now, mode_homebrew, z.full)
    BY <2>5, <2>8 DEF ListSound
  <2>13. ~z.full => ~cramped
    BY <2>8 DEF ScanSound
  <2>14. ("bdvd" \in now => ~cobra) /\ ("bdvd" \in z.force => cobra)
    BY <2>3, <2>7 DEF ScanSound
  <2>15. ScanSound(z)
    BY <2>5, <2>7, <2>10, <2>11, <2>12, <2>13, <2>14 DEF ScanSound
  <2> QED
    BY <1>2, <2>7, <2>15 DEF now, s1
<1>5. CASE s1.now = s1.old /\ dev \notin s1.force
  <2>1. z = s1
    BY <1>5 DEF RefreshDevice, ToRefresh
  <2>2. s1 = sc
    BY <1>1, <1>2, <1>3, <1>5 DEF Scan
  <2>3. z = sc /\ sc.force = sc.force \ {dev}
    BY <1>3, <1>5, <2>1, <2>2
  <2> QED
    BY <1>2, <2>2, <2>3 DEF s1
<1> QED
  BY <1>4, <1>5

\* The disc on its way into the list.
LEMMA DiscAdded ==
  ASSUME DevicesSound, "bdvd" \in plugged, NEW list \in Seq(GameEntry), Distinct(list),
         \A e \in ToSet(list) : ~IsDisc(e)
  PROVE  LET x == WithDisc(list)
             d == [id |-> TheDisc.id, dev |-> "bdvd", kind |-> TheDisc.kind]
         IN  /\ x \in Seq(GameEntry) /\ Distinct(x) /\ Overrun(x)
             /\ d \in ToSet(x) /\ IsDisc(d) /\ ToSet(x) \subseteq ToSet(list) \cup {d}
             /\ Len(x) < Capacity => ToSet(list) \subseteq ToSet(x)
<1> DEFINE k == Min({Len(list), Capacity - 1})
           d == [id |-> TheDisc.id, dev |-> "bdvd", kind |-> TheDisc.kind]
           front == SubSeq(list, 1, k)
           x == Append(front, d)
<1>1. Len(list) \in Nat /\ Capacity \in Nat \ {0}
  BY InToSet, CapacityAssumption
<1>2. k = IF Len(list) <= Capacity - 1 THEN Len(list) ELSE Capacity - 1
  <2>1. CASE Len(list) <= Capacity - 1
    <3>1. Len(list) \in {Len(list), Capacity - 1} /\ \A y \in {Len(list), Capacity - 1} : Len(list) <= y
      BY <1>1, <2>1
    <3>2. \A y \in {Len(list), Capacity - 1} :
            (\A z \in {Len(list), Capacity - 1} : y <= z) => y = Len(list)
      BY <1>1, <2>1
    <3> QED
      BY <2>1, <3>1, <3>2 DEF Min
  <2>2. CASE ~(Len(list) <= Capacity - 1)
    <3>1. /\ Capacity - 1 \in {Len(list), Capacity - 1}
          /\ \A y \in {Len(list), Capacity - 1} : Capacity - 1 <= y
      BY <1>1, <2>2
    <3>2. \A y \in {Len(list), Capacity - 1} :
            (\A z \in {Len(list), Capacity - 1} : y <= z) => y = Capacity - 1
      BY <1>1, <2>2
    <3> QED
      BY <2>2, <3>1, <3>2 DEF Min
  <2> QED
    BY <2>1, <2>2
<1> HIDE DEF k
<1>3. k \in Nat /\ k <= Len(list) /\ k < Capacity /\ (k + 1 < Capacity => k = Len(list))
  BY <1>1, <1>2
<1>4. /\ front \in Seq(GameEntry) /\ Len(front) = k /\ Distinct(front)
      /\ ToSet(front) \subseteq ToSet(list) /\ (k = Len(list) => front = list)
  BY <1>1, <1>3, FrontOf
<1>5. d \in GameEntry /\ IsDisc(d)
  <2>1. "bdvd" \in Devices /\ disk["bdvd"] # {} /\ disk["bdvd"] \subseteq GameFile
    BY DEF Devices, DevicesSound
  <2>2. TheDisc \in GameFile
    BY <2>1 DEF TheDisc
  <2> QED
    BY <2>1, <2>2 DEF GameFile, GameEntry, IsDisc
<1> HIDE DEF front, d
<1>6. /\ x \in Seq(GameEntry) /\ Len(x) = k + 1
      /\ \A i \in 1 .. k + 1 : x[i] = IF i = k + 1 THEN d ELSE front[i]
  BY <1>3, <1>4, <1>5
<1> HIDE DEF x
<1>7. ToSet(x) = ToSet(front) \cup {d}
  <2>1. ToSet(x) = {x[i] : i \in 1 .. k + 1} /\ ToSet(front) = {front[i] : i \in 1 .. k}
    BY <1>4, <1>6, InToSet
  <2>2. ASSUME NEW e \in ToSet(x) PROVE e \in ToSet(front) \cup {d}
    <3>1. PICK i \in 1 .. k + 1 : e = x[i]
      BY <2>1
    <3>2. i # k + 1 => i \in 1 .. k
      BY <1>3
    <3> QED
      BY <1>6, <2>1, <3>1, <3>2
  <2>3. d \in ToSet(x)
    <3>1. k + 1 \in 1 .. k + 1
      BY <1>3
    <3> QED
      BY <1>6, <2>1, <3>1
  <2>4. ASSUME NEW e \in ToSet(front) PROVE e \in ToSet(x)
    <3>1. PICK i \in 1 .. k : e = front[i]
      BY <2>1
    <3>2. i \in 1 .. k + 1 /\ i # k + 1
      BY <1>3
    <3> QED
      BY <1>6, <2>1, <3>1, <3>2
  <2> QED
    BY <2>2, <2>3, <2>4
<1>8. Distinct(x)
  <2>1. SUFFICES ASSUME NEW i \in 1 .. Len(x), NEW j \in 1 .. Len(x), x[i] = x[j]
                 PROVE  i = j
    BY DEF Distinct
  <2>2. \A q \in 1 .. k : front[q] # d
    <3>1. \A q \in 1 .. k : front[q] \in ToSet(front)
      BY <1>4, InToSet
    <3> QED
      BY <1>4, <1>5, <3>1
  <2>3. /\ i \in 1 .. k + 1 /\ j \in 1 .. k + 1
        /\ i # k + 1 => i \in 1 .. k
        /\ j # k + 1 => j \in 1 .. k
    BY <1>3, <1>6
  <2>4. CASE i = k + 1 /\ j # k + 1
    BY <1>6, <2>1, <2>2, <2>3, <2>4
  <2>5. CASE i # k + 1 /\ j = k + 1
    BY <1>6, <2>1, <2>2, <2>3, <2>5
  <2>6. CASE i # k + 1 /\ j # k + 1
    <3>1. front[i] = front[j]
      BY <1>6, <2>1, <2>3, <2>6
    <3> QED
      BY <1>4, <2>3, <2>6, <3>1 DEF Distinct
  <2> QED
    BY <2>4, <2>5, <2>6
<1>9. Overrun(x)
  <2>1. Len(x) <= Capacity
    BY <1>1, <1>3, <1>6
  <2> QED
    BY <1>6, <2>1, NoOverrun
<1>10. Len(x) < Capacity => ToSet(list) \subseteq ToSet(x)
  BY <1>3, <1>4, <1>6, <1>7
<1>11. x = WithDisc(list)
  BY DEF WithDisc, x, front, d, k
<1> QED
  BY <1>4, <1>5, <1>6, <1>7, <1>8, <1>9, <1>10, <1>11 DEF d

\* The scan of the disc drive.
LEMMA RefreshDiscSound ==
  ASSUME DevicesSound, ScreenSound, ListedSound, NEW sc, ScanSound(sc)
  PROVE  LET z == RefreshDisc(Stat(sc, "bdvd"))
         IN  /\ ScanSound(z) /\ z.force = sc.force \ {"bdvd"}
             /\ z.now = IF "bdvd" \in plugged THEN sc.now \cup {"bdvd"} ELSE sc.now \ {"bdvd"}
<1> DEFINE dev == "bdvd"
           s1 == Stat(sc, dev)
           z == RefreshDisc(s1)
<1>1. /\ sc \in Scan /\ sc.now = sc.old /\ ~sc.remove /\ dev \in Scannable
      /\ sc.list \in Seq(GameEntry) /\ cobra \in BOOLEAN
  BY DEF ScanSound, Scannable, Scan, DevicesSound
<1>2. /\ s1 = [sc EXCEPT !.now = s1.now] /\ s1 \in Scan
      /\ s1.now = IF dev \in plugged THEN sc.now \cup {dev} ELSE sc.now \ {dev}
  BY <1>1 DEF Stat, Scan
<1>3. /\ s1.list = sc.list /\ s1.old = sc.old /\ s1.force = sc.force /\ s1.insert = sc.insert
      /\ s1.remove = sc.remove /\ s1.full = sc.full
  BY <1>1, <1>2 DEF Scan
<1>4. (dev \in s1.now <=> dev \in plugged) /\ (dev \in plugged => ~cobra)
  BY <1>2 DEF DevicesSound
<1>5. (s1.old \ {dev}) \cup (s1.now \cap {dev}) = s1.now
  BY <1>1, <1>2, <1>3
<1>6. /\ s1.full \in BOOLEAN /\ s1.list \in Seq(GameEntry) /\ s1.now \in SUBSET Scannable
      /\ s1.force \in SUBSET Scannable /\ s1.insert \in BOOLEAN /\ s1.remove \in BOOLEAN
  BY <1>2 DEF Scan
<1> HIDE DEF s1
<1>7. CASE s1.now # s1.old \/ dev \in s1.force
  <2> DEFINE shows == dev \in s1.now /\ mode_homebrew = GAMEBASE_MODE /\ ~cobra
             x == IF shows THEN WithDisc(s1.list) ELSE delete_entries(s1.list, dev)
             y == Sort(x)
             now == s1.now
  <2>1. ListSound(sc.list, sc.now, mode_homebrew, sc.full)
    BY DEF ScanSound
  <2>2. shows => /\ dev \in plugged /\ ~cobra /\ \A e \in ToSet(sc.list) : ~IsDisc(e)
    <3>1. SUFFICES ASSUME shows PROVE dev \notin sc.now /\ dev \in plugged /\ ~cobra
      BY <2>1 DEF ListSound
    <3>2. dev \in plugged /\ ~cobra
      BY <1>4, <3>1
    <3>3. dev \notin sc.force
      BY <3>2 DEF ScanSound
    <3> QED
      BY <1>1, <1>2, <1>3, <1>7, <3>2, <3>3
  <2>3. /\ x \in Seq(GameEntry) /\ Distinct(x) /\ Overrun(x)
        /\ \A e \in ToSet(x) : ~IsDisc(e) => e \in ToSet(sc.list)
        /\ Len(x) < Capacity => \A e \in ToSet(sc.list) : ~IsDisc(e) => e \in ToSet(x)
        /\ \A e \in ToSet(x) : IsDisc(e) => shows
        /\ \A e, f \in ToSet(x) : IsDisc(e) /\ IsDisc(f) => e = f
        /\ shows => \E e \in ToSet(x) : IsDisc(e)
    <3>1. CASE shows
      <4> DEFINE d == [id |-> TheDisc.id, dev |-> "bdvd", kind |-> TheDisc.kind]
      <4>1. sc.list \in Seq(GameEntry) /\ Distinct(sc.list) /\ \A e \in ToSet(sc.list) : ~IsDisc(e)
        BY <1>1, <2>1, <2>2, <3>1 DEF ListSound
      <4>2. x = WithDisc(sc.list)
        BY <1>3, <3>1
      <4>3. /\ x \in Seq(GameEntry) /\ Distinct(x) /\ Overrun(x)
            /\ d \in ToSet(x) /\ IsDisc(d) /\ ToSet(x) \subseteq ToSet(sc.list) \cup {d}
            /\ Len(x) < Capacity => ToSet(sc.list) \subseteq ToSet(x)
        BY <2>2, <3>1, <4>1, <4>2, DiscAdded
      <4> HIDE DEF x, d, shows
      <4> QED
        BY <3>1, <4>1, <4>3
    <3>2. CASE ~shows
      <4>1. x = delete_entries(sc.list, dev)
        BY <1>3, <3>2
      <4>2. /\ x \in Seq(GameEntry) /\ ToSet(x) = {e \in ToSet(sc.list) : e.dev # dev} /\ Distinct(x)
        BY <1>1, <2>1, <4>1, DeleteEntries DEF ListSound
      <4>3. Overrun(x)
        BY <1>1, <2>1, <4>1, OverrunDeleted DEF ListSound
      <4> HIDE DEF x, shows
      <4> QED
        BY <3>2, <4>2, <4>3 DEF IsDisc
    <3> QED
      BY <3>1, <3>2
  <2>4. ListSound(x, now, mode_homebrew, TRUE)
    <3>1. shows => dev \in now /\ mode_homebrew = GAMEBASE_MODE
      OBVIOUS
    <3> HIDE DEF x, shows, now
    <3> QED
      BY <2>3, <3>1 DEF ListSound
  <2>5. /\ ListSound(y, now, mode_homebrew, TRUE)
        /\ ToSet(y) = ToSet(x) /\ Len(y) = Len(x) /\ y \in Seq(GameEntry)
        /\ Ordered(y, sort_mode, mode_homebrew)
    <3> HIDE DEF x, shows, now
    <3>1. /\ ListSound(y, now, mode_homebrew, TRUE)
          /\ ToSet(y) = ToSet(x) /\ Len(y) = Len(x)
          /\ Ordered(y, sort_mode, mode_homebrew)
      BY <2>4, SortSound
    <3> QED
      BY <3>1 DEF ListSound
  <2>6. z = [s1 EXCEPT !.list = y, !.full = s1.full \/ Len(y) >= Capacity, !.insert = TRUE,
                       !.force = s1.force \ {dev}, !.old = (s1.old \ {dev}) \cup (s1.now \cap {dev})]
    BY <1>2, <1>7 DEF RefreshDisc, ToRefresh, Seen, Installed, Scan
  <2>7. "bdvd" \in now /\ mode_homebrew = GAMEBASE_MODE => shows
    BY <1>4
  <2> HIDE DEF x, y, shows, now
  <2>8. /\ z.list = y /\ (z.full <=> (sc.full \/ Len(y) >= Capacity)) /\ z.insert
        /\ z.force = sc.force \ {dev} /\ z.old = now /\ z.now = now /\ ~z.remove /\ z \in Scan
    <3> DEFINE b == s1.full \/ Len(y) >= Capacity
    <3>1. z = [list |-> y, now |-> s1.now, old |-> s1.now, force |-> s1.force \ {dev}, insert |-> TRUE,
               remove |-> s1.remove, full |-> b]
      BY <1>2, <1>5, <2>6 DEF Scan
    <3>2. b \in BOOLEAN
      OBVIOUS
    <3> HIDE DEF b
    <3>3. z \in Scan
      BY <1>6, <2>5, <3>1, <3>2 DEF Scan
    <3>4. /\ z.list = y /\ z.insert /\ z.force = s1.force \ {dev} /\ z.old = s1.now /\ z.now = s1.now
          /\ z.remove = s1.remove /\ z.full = b
      BY <3>1
    <3> QED
      BY <1>1, <1>3, <3>3, <3>4 DEF now, b
  <2>9. ~z.full => Len(y) < Capacity /\ ~sc.full
    <3>1. Len(y) \in Nat /\ Capacity \in Nat
      BY <2>5, InToSet, CapacityAssumption
    <3>2. ~z.full => ~sc.full /\ ~(Len(y) >= Capacity)
      BY <2>8
    <3> QED
      BY <3>1, <3>2
  <2>10. /\ \A e \in ToSet(y) : ~IsDisc(e) => e \in ToSet(sc.list)
         /\ ~z.full => \A e \in ToSet(sc.list) : ~IsDisc(e) => e \in ToSet(y)
    BY <2>3, <2>5, <2>9
  <2>11. ~z.full => Uncut(y, now, z.force)
    <3>1. SUFFICES ASSUME ~z.full PROVE Uncut(y, now, z.force)
      OBVIOUS
    <3>2. Uncut(sc.list, sc.now, sc.force)
      BY <2>9, <3>1 DEF ScanSound
    <3>3. ASSUME NEW d \in {"hdd", "usb"} \ z.force
          PROVE  DeviceListed(y, d, d \in now)
      <4>1. d \notin sc.force /\ (d \in now <=> d \in sc.now) /\ d # "bdvd"
        BY <1>2, <2>8, <3>3 DEF now
      <4>2. DeviceListed(sc.list, d, d \in sc.now)
        BY <3>2, <4>1 DEF Uncut
      <4> QED
        BY <2>10, <3>1, <4>1, <4>2 DEF DeviceListed, IsDisc
    <3>4. "bdvd" \in now /\ mode_homebrew = GAMEBASE_MODE => \E e \in ToSet(y) : IsDisc(e)
      BY <2>3, <2>5, <2>7
    <3> QED
      BY <3>3, <3>4 DEF Uncut
  <2>12. /\ \A e \in ToSet(y) : IsNtfs(e) => e \in ToSet(directories)
         /\ ~z.full => \A e \in ToSet(directories) : IsNtfs(e) => e \in ToSet(y)
    <3>1. \A e : IsNtfs(e) => ~IsDisc(e)
      BY DEF IsNtfs, IsDisc
    <3> QED
      BY <2>9, <2>10, <3>1 DEF ScanSound
  <2>13. ListSound(y, now, mode_homebrew, z.full)
    BY <2>5, <2>9 DEF ListSound
  <2>14. ~z.full => ~cramped
    BY <2>9 DEF ScanSound
  <2>15. ("bdvd" \in now => ~cobra) /\ ("bdvd" \in z.force => cobra)
    BY <1>4, <2>8 DEF now
  <2>16. ScanSound(z)
    BY <2>5, <2>8, <2>11, <2>12, <2>13, <2>14, <2>15 DEF ScanSound
  <2> QED
    BY <1>2, <2>8, <2>16 DEF now, s1
<1>8. CASE s1.now = s1.old /\ dev \notin s1.force
  <2>1. s1 = sc
    BY <1>1, <1>2, <1>3, <1>8 DEF Scan
  <2>2. z = [s1 EXCEPT !.force = s1.force \ {dev}, !.old = (s1.old \ {dev}) \cup (s1.now \cap {dev})]
    BY <1>2, <1>8 DEF RefreshDisc, ToRefresh, Seen, Scan
  <2>3. s1.force \ {dev} = s1.force /\ (s1.old \ {dev}) \cup (s1.now \cap {dev}) = s1.old
    BY <1>5, <1>8
  <2>4. z = sc /\ sc.force = sc.force \ {dev}
    <3>1. z = [s1 EXCEPT !.force = s1.force, !.old = s1.old]
      BY <2>2, <2>3
    <3>2. z = s1
      BY <1>2, <3>1 DEF Scan
    <3>3. sc.force = sc.force \ {dev}
      BY <2>1, <2>3
    <3> QED
      BY <2>1, <3>2, <3>3
  <2> QED
    BY <1>2, <2>1, <2>4 DEF s1
<1> QED
  BY <1>7, <1>8

\* The turn starts with the list as the last one left it.
LEMMA ScanStarts ==
  ASSUME DevicesSound, ScreenSound, ListedSound
  PROVE  ScanSound(ScanStart)
<1>1. directories \in Seq(GameEntry) /\ ListSound(directories, fdevices, mode_homebrew, cramped)
  BY DEF ListedSound, ListSound
<1>2. /\ ScanStart \in Scan
      /\ ScanStart.list = directories /\ ScanStart.now = fdevices /\ ScanStart.old = fdevices_old
      /\ ScanStart.force = forcedevices /\ ScanStart.insert = FALSE /\ ScanStart.remove = FALSE
      /\ ScanStart.full = cramped
  BY <1>1 DEF ScanStart, Scan, DevicesSound, ScreenSound
<1>3. ~cramped => Uncut(directories, fdevices, forcedevices)
  BY DEF ListedSound
<1> QED
  BY <1>1, <1>2, <1>3 DEF ScanSound, DevicesSound

\* A scan of all devices leaves none to be listed again.
LEMMA ScanDevicesSound ==
  ASSUME DevicesSound, ScreenSound, ListedSound
  PROVE  LET z == ScanDevices(ScanStart)
         IN  /\ ScanSound(z) /\ z.force = {}
             /\ z.now = plugged \cap Scannable /\ "hdd" \in z.now
<1> DEFINE s0 == ScanStart
           s1 == RefreshDevice(Stat(s0, "hdd"), "hdd")
           s2 == RefreshDevice(Stat(s1, "usb"), "usb")
           s3 == RefreshDisc(Stat(s2, "bdvd"))
<1>1. ScanSound(s0)
  BY ScanStarts
<1> HIDE DEF s0
<1>2. /\ ScanSound(s1) /\ s1.force = s0.force \ {"hdd"}
      /\ s1.now = IF "hdd" \in plugged THEN s0.now \cup {"hdd"} ELSE s0.now \ {"hdd"}
  <2>1. "hdd" \in {"hdd", "usb"}
    OBVIOUS
  <2> QED
    BY <1>1, <2>1, RefreshDeviceSound
<1> HIDE DEF s1
<1>3. /\ ScanSound(s2) /\ s2.force = s1.force \ {"usb"}
      /\ s2.now = IF "usb" \in plugged THEN s1.now \cup {"usb"} ELSE s1.now \ {"usb"}
  <2>1. "usb" \in {"hdd", "usb"}
    OBVIOUS
  <2> QED
    BY <1>2, <2>1, RefreshDeviceSound
<1> HIDE DEF s2
<1>4. /\ ScanSound(s3) /\ s3.force = s2.force \ {"bdvd"}
      /\ s3.now = IF "bdvd" \in plugged THEN s2.now \cup {"bdvd"} ELSE s2.now \ {"bdvd"}
  BY <1>3, RefreshDiscSound
<1>5. s3 = ScanDevices(ScanStart)
  BY DEF ScanDevices, s0, s1, s2
<1> HIDE DEF s3
<1>6. s0.force \subseteq Scannable /\ s0.now \subseteq Scannable
  BY <1>1 DEF ScanSound, Scan
<1>7. s3.force = {} /\ s3.now = plugged \cap Scannable /\ "hdd" \in s3.now
  <2>1. "hdd" \in plugged
    BY DEF DevicesSound
  <2> QED
    BY <1>2, <1>3, <1>4, <1>6, <2>1 DEF Scannable
<1> QED
  BY <1>4, <1>5, <1>7

\* A list with nothing of a device is not changed by emptying it of that.
LEMMA NothingToDelete ==
  ASSUME NEW list \in Seq(GameEntry), Distinct(list), NEW dev, \A e \in ToSet(list) : e.dev # dev
  PROVE  delete_entries(list, dev) = list
<1> DEFINE x == delete_entries(list, dev)
<1>1. /\ x \in Seq(GameEntry) /\ Distinct(x)
      /\ ToSet(x) = {e \in ToSet(list) : e.dev # dev}
      /\ Len(x) = Len(list) => x = list
  BY DeleteEntries
<1> HIDE DEF x
<1>2. ToSet(x) = ToSet(list)
  BY <1>1
<1>3. Cardinality(ToSet(x)) = Len(x) /\ Cardinality(ToSet(list)) = Len(list)
  BY <1>1, LenIsCardinality
<1> QED
  BY <1>1, <1>2, <1>3 DEF x

\* The NTFS volumes on their way into the list.
LEMMA NtfsRefills ==
  ASSUME DevicesSound, ScreenSound, cobra, NEW list \in Seq(GameEntry)
  PROVE  LET left == delete_entries(list, "ntfs")
             filled == fill_iso(left, EntriesOf(disk["ntfs"], "ntfs", NtfsKinds))
             all == IF NtfsPsx THEN fill_psx(filled, EntriesOf(disk["ntfs"], "ntfs", {"psx"})) ELSE filled
         IN  Refilled(list, all, "ntfs", ShownOf("ntfs")) /\ Refilled(list, left, "ntfs", {})
<1> DEFINE dev == "ntfs"
           files == disk[dev]
           left == delete_entries(list, dev)
           new == EntriesOf(files, dev, NtfsKinds)
           psx == EntriesOf(files, dev, {"psx"})
           filled == fill_iso(left, new)
           all == IF NtfsPsx THEN fill_psx(filled, psx) ELSE filled
           k2 == IF NtfsPsx THEN {"psx"} ELSE {}
           M1 == Made(files, dev, NtfsKinds)
           M2 == Made(files, dev, k2)
           shown == ShownOf(dev)
<1>1. dev \in Devices /\ files \in SUBSET GameFile /\ IsFiniteSet(files)
  <2>1. dev \in Devices
    BY DEF Devices
  <2>2. files \in SUBSET GameFile /\ files \subseteq Library[dev]
    BY <2>1 DEF DevicesSound
  <2>3. IsFiniteSet(Library[dev])
    BY <2>1, GameListsAssumption
  <2> QED
    BY <2>1, <2>2, <2>3, FS_Subset
<1>2. new \in Seq(GameEntry) /\ Distinct(new) /\ ToSet(new) = M1
  <2>1. LET z == IF TRUE THEN EntriesOf(files, dev, NtfsKinds) ELSE << >>
        IN  /\ z \in Seq(GameEntry) /\ Distinct(z)
            /\ ToSet(z) = Made(files, dev, IF TRUE THEN NtfsKinds ELSE {})
    BY <1>1, ShownEntries
  <2> QED
    BY <2>1
<1>3. psx \in Seq(GameEntry) /\ Distinct(psx) /\ ToSet(psx) = Made(files, dev, {"psx"})
  <2>1. LET z == IF TRUE THEN EntriesOf(files, dev, {"psx"}) ELSE << >>
        IN  /\ z \in Seq(GameEntry) /\ Distinct(z)
            /\ ToSet(z) = Made(files, dev, IF TRUE THEN {"psx"} ELSE {})
    BY <1>1, ShownEntries
  <2> QED
    BY <2>1
<1>4. left \in Seq(GameEntry) /\ \A e \in ToSet(left) : e.dev # dev
  BY DeleteEntries
<1>5. shown = M1 \cup M2 /\ M1 \cap M2 = {} /\ \A e \in shown : e.dev = dev
  <2>1. ShownKinds(dev) = NtfsKinds \cup k2
    <3>1. /\ mode_homebrew \in {0, 2, 3} /\ game_list_category \in 0 .. 2 /\ dev = "ntfs"
          /\ "ntfs" # "hdd" /\ "ntfs" # "usb"
      BY DEF ScreenSound, Modes, GAMEBASE_MODE, HOMEBREW_MODE, FILM_MODE
    <3>2. CASE mode_homebrew = 0
      BY <3>1, <3>2 DEF ShownKinds, NtfsKinds, NtfsPsx, GAMEBASE_MODE
    <3>3. CASE mode_homebrew # 0
      BY <3>1, <3>3 DEF ShownKinds, NtfsKinds, NtfsPsx, GAMEBASE_MODE
    <3> QED
      BY <3>2, <3>3
  <2>2. NtfsKinds \cap k2 = {}
    BY DEF NtfsKinds
  <2>3. shown = M1 \cup M2
    BY <2>1 DEF ShownOf, Made
  <2>4. M1 \cap M2 = {}
    BY <1>1, <2>2, MadeOf
  <2>5. \A e \in shown : e.dev = dev
    BY DEF ShownOf, Made
  <2> QED
    BY <2>3, <2>4, <2>5
<1>6. NtfsPsx => M2 = Made(files, dev, {"psx"})
  OBVIOUS
<1>7. ~NtfsPsx => M2 = {}
  BY DEF Made
<1> HIDE DEF new, psx, left, M1, M2, shown
<1>8. Grown(left, filled, M1) /\ filled \in Seq(GameEntry) /\ (Len(filled) <= Capacity \/ filled = left)
  BY <1>2, <1>4, IsoGrows, FillIso
<1> HIDE DEF filled
<1>9. Grown(filled, all, M2)
  <2>1. CASE NtfsPsx
    <3>1. PsxRoom(filled, dev)
      BY <1>4, <1>8 DEF PsxRoom
    <3>2. \A e \in ToSet(psx) : e.dev = dev /\ IsPsx(e)
      BY <1>3 DEF Made, IsPsx
    <3>3. Grown(filled, fill_psx(filled, psx), ToSet(psx))
      BY <1>3, <1>8, <3>1, <3>2, PsxGrows
    <3> QED
      BY <1>3, <1>6, <2>1, <3>3
  <2>2. CASE ~NtfsPsx
    BY <1>7, <1>8, <2>2, GrownByNothing
  <2> QED
    BY <2>1, <2>2
<1> HIDE DEF all
<1>10. Grown(left, all, M1 \cup M2)
  BY <1>4, <1>5, <1>8, <1>9, GrownTwice
<1>11. Refilled(list, all, dev, shown)
  <2>1. Grown(delete_entries(list, dev), all, shown)
    BY <1>5, <1>10 DEF left
  <2>2. shown \subseteq shown
    OBVIOUS
  <2> QED
    BY <1>5, <2>1, <2>2, GrownIsRefilled
<1>12. Refilled(list, left, dev, {})
  <2>1. Grown(delete_entries(list, dev), left, {})
    BY <1>4, GrownByNothing DEF left
  <2> QED
    BY <2>1, GrownIsRefilled
<1> QED
  BY <1>11, <1>12 DEF all, filled, left, new, psx, shown

(* What the turn ends with: as ScanSound, with the NTFS volumes there now. *)
TurnSound(z, there) ==
  /\ z \in Scan /\ z.now = z.old
  /\ "bdvd" \in z.now => ~cobra
  /\ "bdvd" \in z.force => cobra
  /\ ListSound(z.list, z.now, mode_homebrew, z.full)
  /\ \A e \in ToSet(z.list) : IsNtfs(e) => there
  /\ ~z.full => Uncut(z.list, z.now, z.force)
  /\ ~z.full /\ there => VolumesListed(z.list)
  /\ ~z.insert /\ ~z.remove => z.list = directories /\ z.now = fdevices
  /\ z.list = directories \/ NtfsLeft \/ Ordered(z.list, sort_mode, mode_homebrew)

\* The NTFS volumes are looked at last. If they are there as before, what
\* the list has of them is true; if they left, nothing of theirs stays.
LEMMA RefreshNtfsSound ==
  ASSUME DevicesSound, ScreenSound, ListedSound, NEW sc, ScanSound(sc)
  PROVE  LET z == RefreshNtfs(sc)
         IN  TurnSound(z, cobra /\ "ntfs" \in plugged) /\ z.now = sc.now /\ z.force = sc.force
<1> DEFINE z == RefreshNtfs(sc)
           mounted == "ntfs" \in plugged
<1>1. /\ sc \in Scan /\ sc.list \in Seq(GameEntry) /\ sc.now = sc.old /\ ~sc.remove
      /\ sc.insert \in BOOLEAN /\ sc.full \in BOOLEAN /\ sc.remove \in BOOLEAN
      /\ ListSound(sc.list, sc.now, mode_homebrew, sc.full)
  BY DEF ScanSound, Scan
<1>2. cobra \in BOOLEAN /\ old_ntfs_ports \in BOOLEAN /\ (old_ntfs_ports => cobra) /\ (mounted => cobra)
  BY DEF DevicesSound
<1>3. CASE ~cobra \/ (old_ntfs_ports = mounted /\ fdevices # {})
  <2>1. z = sc
    BY <1>3 DEF RefreshNtfs
  <2>2. \A e \in ToSet(sc.list) : IsNtfs(e) => e \in ToSet(directories) /\ old_ntfs_ports
    BY DEF ScanSound, ListedSound
  <2>3. \A e \in ToSet(sc.list) : IsNtfs(e) => cobra /\ mounted
    BY <1>2, <1>3, <2>2
  <2>4. ~sc.full /\ cobra /\ mounted => VolumesListed(sc.list)
    <3>1. SUFFICES ASSUME ~sc.full, cobra, mounted PROVE VolumesListed(sc.list)
      OBVIOUS
    <3>2. old_ntfs_ports /\ fdevices # {}
      BY <1>2, <1>3, <3>1
    <3>3. ~cramped /\ \A e \in ToSet(directories) : IsNtfs(e) => e \in ToSet(sc.list)
      BY <3>1 DEF ScanSound
    <3>4. VolumesListed(directories)
      BY <3>2, <3>3 DEF ListedSound
    <3>5. \A e \in ShownOf("ntfs") : IsNtfs(e)
      BY DEF ShownOf, Made, IsNtfs
    <3> QED
      BY <2>2, <3>3, <3>4, <3>5 DEF VolumesListed
  <2>5. /\ "bdvd" \in sc.now => ~cobra
        /\ "bdvd" \in sc.force => cobra
        /\ ~sc.full => Uncut(sc.list, sc.now, sc.force)
        /\ ~sc.insert => sc.list = directories /\ sc.now = fdevices
        /\ sc.insert => Ordered(sc.list, sort_mode, mode_homebrew)
    BY DEF ScanSound
  <2>6. TurnSound(sc, cobra /\ mounted)
    BY <1>1, <2>3, <2>4, <2>5 DEF TurnSound
  <2> QED
    BY <2>1, <2>6
<1>4. CASE cobra /\ ~(old_ntfs_ports = mounted /\ fdevices # {})
  <2> DEFINE left == delete_entries(sc.list, "ntfs")
             filled == fill_iso(left, EntriesOf(disk["ntfs"], "ntfs", NtfsKinds))
             all == IF NtfsPsx THEN fill_psx(filled, EntriesOf(disk["ntfs"], "ntfs", {"psx"})) ELSE filled
             x == IF mounted THEN all ELSE left
             y == IF mounted THEN Sort(all) ELSE IF sc.insert THEN Sort(left) ELSE left
             shown == IF mounted THEN ShownOf("ntfs") ELSE {}
             gone == Len(left) < Len(sc.list)
             b == sc.full \/ Len(y) >= Capacity
             i == sc.insert \/ mounted
  <2>1. Refilled(sc.list, x, "ntfs", shown)
    <3>1. Refilled(sc.list, all, "ntfs", ShownOf("ntfs")) /\ Refilled(sc.list, left, "ntfs", {})
      BY <1>1, <1>4, NtfsRefills
    <3> HIDE DEF all, left
    <3> QED
      BY <3>1
  <2>2. ~mounted => x = left
    OBVIOUS
  <2>3. y = x \/ y = Sort(x)
    OBVIOUS
  <2>4. mounted \/ sc.insert => y = Sort(x)
    OBVIOUS
  <2>5. ~(mounted \/ sc.insert) => y = left
    OBVIOUS
  <2>6. z = [sc EXCEPT !.list = y, !.full = b, !.insert = i, !.remove = gone]
    BY <1>1, <1>4 DEF RefreshNtfs, Installed, Scan
  <2>7. /\ left \in Seq(GameEntry) /\ Len(left) <= Len(sc.list)
        /\ Len(left) = Len(sc.list) => left = sc.list
    BY <1>1, DeleteEntries
  <2>8. (\A e \in ToSet(sc.list) : ~IsNtfs(e)) => left = sc.list
    <3>1. Distinct(sc.list)
      BY <1>1 DEF ListSound
    <3> QED
      BY <1>1, <3>1, NothingToDelete DEF IsNtfs
  <2> HIDE DEF x, y, left, filled, all, shown
  <2>9. ListSound(x, sc.now, mode_homebrew, TRUE)
    <3>1. \A e \in ToSet(x) : IsDisc(e) => e \in ToSet(sc.list)
      BY <2>1 DEF Refilled, IsDisc
    <3> QED
      BY <1>1, <2>1, <3>1 DEF ListSound, Refilled
  <2>10. /\ ListSound(y, sc.now, mode_homebrew, TRUE)
         /\ ToSet(y) = ToSet(x) /\ Len(y) = Len(x) /\ y \in Seq(GameEntry)
         /\ mounted \/ sc.insert => Ordered(y, sort_mode, mode_homebrew)
    <3>1. /\ ListSound(Sort(x), sc.now, mode_homebrew, TRUE)
          /\ ToSet(Sort(x)) = ToSet(x) /\ Len(Sort(x)) = Len(x)
          /\ Ordered(Sort(x), sort_mode, mode_homebrew)
      BY <2>9, SortSound
    <3>2. y \in Seq(GameEntry)
      BY <2>3, <2>9, <3>1 DEF ListSound
    <3> QED
      BY <2>3, <2>4, <2>9, <3>1, <3>2
  <2>11. b \in BOOLEAN /\ i \in BOOLEAN /\ gone \in BOOLEAN
    OBVIOUS
  <2> HIDE DEF b, i, gone
  <2>12. /\ z \in Scan /\ z.list = y /\ z.now = sc.now /\ z.old = sc.old /\ z.force = sc.force
         /\ z.full = b /\ z.insert = i /\ z.remove = gone
    <3>1. z = [list |-> y, now |-> sc.now, old |-> sc.old, force |-> sc.force, insert |-> i,
               remove |-> gone, full |-> b]
      BY <1>1, <2>6 DEF Scan
    <3>2. sc.now \in SUBSET Scannable /\ sc.old \in SUBSET Scannable /\ sc.force \in SUBSET Scannable
      BY <1>1 DEF Scan
    <3> QED
      BY <2>10, <2>11, <3>1, <3>2 DEF Scan
  <2>13. ~z.full => Len(y) < Capacity /\ ~sc.full
    <3>1. Len(y) \in Nat /\ Capacity \in Nat
      BY <2>10, InToSet, CapacityAssumption
    <3>2. ~z.full => ~sc.full /\ ~(Len(y) >= Capacity)
      BY <2>12 DEF b
    <3> QED
      BY <3>1, <3>2
  <2>14. /\ \A e : e.dev # "ntfs" => (e \in ToSet(y) <=> e \in ToSet(sc.list))
         /\ \A e \in ToSet(y) : IsNtfs(e) => e \in shown
         /\ Len(y) < Capacity => shown \subseteq ToSet(y)
    BY <2>1, <2>10 DEF Refilled, IsNtfs
  <2>15. ~z.full => Uncut(y, z.now, z.force)
    <3>1. SUFFICES ASSUME ~z.full PROVE Uncut(y, sc.now, sc.force)
      BY <2>12
    <3>2. Uncut(sc.list, sc.now, sc.force)
      BY <2>13, <3>1 DEF ScanSound
    <3>3. ASSUME NEW d \in {"hdd", "usb"} \ sc.force
          PROVE  DeviceListed(y, d, d \in sc.now)
      <4>1. DeviceListed(sc.list, d, d \in sc.now) /\ d # "ntfs"
        BY <3>2 DEF Uncut
      <4> QED
        BY <2>14, <4>1 DEF DeviceListed
    <3>4. "bdvd" \in sc.now /\ mode_homebrew = GAMEBASE_MODE => \E e \in ToSet(y) : IsDisc(e)
      BY <2>14, <3>2 DEF Uncut, IsDisc
    <3> QED
      BY <3>3, <3>4 DEF Uncut
  <2>16. /\ \A e \in ToSet(y) : IsNtfs(e) => cobra /\ mounted
         /\ ~z.full /\ mounted => VolumesListed(y)
    <3>1. mounted => shown = ShownOf("ntfs")
      BY DEF shown
    <3>2. ~mounted => shown = {}
      BY DEF shown
    <3>3. ~z.full /\ mounted => VolumesListed(y)
      BY <2>13, <2>14, <3>1 DEF VolumesListed
    <3>4. \A e \in ToSet(y) : IsNtfs(e) => cobra /\ mounted
      BY <1>4, <2>14, <3>2
    <3> QED
      BY <3>3, <3>4
  <2>17. ~z.insert /\ ~z.remove => z.list = directories /\ z.now = fdevices
    <3>1. SUFFICES ASSUME ~i, ~gone PROVE y = directories /\ sc.now = fdevices
      BY <2>12
    <3>2. ~sc.insert /\ ~mounted /\ Len(left) = Len(sc.list)
      <4>1. Len(left) \in Nat /\ Len(sc.list) \in Nat
        BY <1>1, <2>7, InToSet
      <4> QED
        BY <2>7, <3>1, <4>1 DEF i, gone
    <3> QED
      BY <2>5, <2>7, <3>2 DEF ScanSound
  <2>18. z.list = directories \/ NtfsLeft \/ Ordered(z.list, sort_mode, mode_homebrew)
    <3>1. SUFFICES ASSUME ~mounted, ~sc.insert, ~NtfsLeft PROVE y = directories
      BY <2>10, <2>12
    <3>2. ~old_ntfs_ports /\ sc.list = directories
      BY <3>1 DEF NtfsLeft, ScanSound
    <3>3. \A e \in ToSet(sc.list) : ~IsNtfs(e)
      BY <3>2 DEF ListedSound
    <3> QED
      BY <2>5, <2>8, <3>1, <3>2, <3>3
  <2>19. ListSound(y, sc.now, mode_homebrew, z.full)
    BY <2>10, <2>13 DEF ListSound
  <2>20. ("bdvd" \in sc.now => ~cobra) /\ ("bdvd" \in sc.force => cobra)
    BY DEF ScanSound
  <2>21. TurnSound(z, cobra /\ mounted)
    BY <1>1, <2>12, <2>15, <2>16, <2>17, <2>18, <2>19, <2>20 DEF TurnSound
  <2> QED
    BY <2>12, <2>21
<1> QED
  BY <1>2, <1>3, <1>4
-----------------------------------------------------------------------------
(* The favourites.                                                         *)

\* A favourite, with what is found of it in the list.
LEMMA UpdatedFavourites ==
  ASSUME NEW f \in Favourites, NEW list \in Seq(GameEntry)
  PROVE  LET u == UpdateFavourites(f, list)
         IN  /\ u \in Favourites /\ Ids(u) = Ids(f)
             /\ \A s \in Slots : u[s].id = f[s].id /\ FavouriteAt(u[s], list)
<1> DEFINE u == UpdateFavourites(f, list)
<1>1. Len(list) \in Nat
  BY InToSet
<1>2. ASSUME NEW s \in Slots
      PROVE  /\ u[s] = [id |-> f[s].id, index |-> IndexOfFavourite(f[s], list)]
             /\ f[s].id \in Nat
             /\ IndexOfFavourite(f[s], list) \in -1 .. Len(list) - 1
             /\ IndexOfFavourite(f[s], list) >= 0 => list[IndexOfFavourite(f[s], list) + 1].id = f[s].id
  <2>1. DOMAIN f = Slots /\ f[s] \in [id : Nat, index : Int]
    BY DEF Favourites
  <2>2. LET p == IndexOfFavourite(f[s], list)
        IN  /\ p \in -1 .. Len(list) - 1
            /\ p >= 0 => f[s].id # 0 /\ list[p + 1].id = f[s].id
    BY FavouriteFound
  <2> QED
    BY <2>1, <2>2 DEF UpdateFavourites
<1>3. u = [s \in Slots |-> u[s]]
  BY DEF UpdateFavourites, Favourites
<1> HIDE DEF u
<1>4. ASSUME NEW s \in Slots
      PROVE  u[s] \in [id : Nat, index : Int] /\ u[s].id = f[s].id /\ FavouriteAt(u[s], list)
  <2> DEFINE p == IndexOfFavourite(f[s], list)
             i == f[s].id
  <2>1. /\ u[s] = [id |-> i, index |-> p] /\ i \in Nat /\ p \in -1 .. Len(list) - 1
        /\ p >= 0 => list[p + 1].id = i
    BY <1>2
  <2> HIDE DEF p, i
  <2>2. p \in Int /\ p < Len(list)
    BY <1>1, <2>1
  <2>3. u[s].id = i /\ u[s].index = p
    BY <2>1
  <2> QED
    BY <2>1, <2>2, <2>3 DEF FavouriteAt, i
<1>5. u \in Favourites
  BY <1>3, <1>4 DEF Favourites
<1>6. \A s \in Slots : u[s].id = f[s].id /\ FavouriteAt(u[s], list)
  BY <1>4
<1>7. Ids(u) = Ids(f)
  BY <1>6 DEF Ids
<1> QED
  BY <1>5, <1>6, <1>7 DEF u

\* Whether a favourite is twice there is a matter of the titles.
LEMMA OnceEachByIds ==
  ASSUME NEW f, NEW g, \A s \in Slots : f[s].id = g[s].id, OnceEach(f)
  PROVE  OnceEach(g)
BY DEF OnceEach

\* SaveFavourites: what is on the disk is what is in memory, if it gets there.
LEMMA SaveKeeps ==
  ASSUME ScreenSound, FavouritesSound, SaveFavourites, UNCHANGED mode_homebrew,
         favourites' \in Favourites, OnceEach(favourites')
  PROVE  /\ kept' \in [Modes -> Favourites]
         /\ saved' \in [Modes -> [Slots -> Nat] \cup {Cut}] /\ unsaved' \subseteq Modes
         /\ \A m \in Modes : OnceEach(kept'[m])
         /\ \A m \in {GAMEBASE_MODE, HOMEBREW_MODE} \ unsaved' :
              saved'[m] = Ids(IF mode_homebrew' = m THEN favourites' ELSE kept'[m])
<1>1. /\ kept \in [Modes -> Favourites] /\ saved \in [Modes -> [Slots -> Nat] \cup {Cut}]
      /\ mode_homebrew \in Modes /\ unsaved \subseteq Modes
  BY DEF ScreenSound
<1>2. /\ \A m \in Modes : OnceEach(kept[m])
      /\ \A m \in {GAMEBASE_MODE, HOMEBREW_MODE} \ unsaved :
           saved[m] = Ids(IF mode_homebrew = m THEN favourites ELSE kept[m])
  BY DEF FavouritesSound
<1>3. {GAMEBASE_MODE, HOMEBREW_MODE} = Modes \ {FILM_MODE}
  BY DEF Modes, GAMEBASE_MODE, HOMEBREW_MODE, FILM_MODE
<1>4. CASE mode_homebrew = FILM_MODE
  <2>1. kept' = kept /\ saved' = saved /\ unsaved' = unsaved
    BY <1>4 DEF SaveFavourites
  <2>2. \A m \in {GAMEBASE_MODE, HOMEBREW_MODE} : mode_homebrew # m
    BY <1>3, <1>4
  <2> QED
    BY <1>1, <1>2, <2>1, <2>2
<1>5. CASE mode_homebrew # FILM_MODE
  <2>1. kept' = [kept EXCEPT ![mode_homebrew] = favourites']
    BY <1>5 DEF SaveFavourites
  <2>2. PICK file \in {Ids(favourites'), Cut, saved[mode_homebrew]} :
          /\ saved' = [saved EXCEPT ![mode_homebrew] = file]
          /\ \/ file = Ids(favourites') /\ unsaved' = unsaved \ {mode_homebrew}
             \/ unsaved' = unsaved \cup {mode_homebrew}
    <3>1. saved = [saved EXCEPT ![mode_homebrew] = saved[mode_homebrew]]
      BY <1>1
    <3> QED
      BY <1>5, <3>1 DEF SaveFavourites
  <2>3. file \in [Slots -> Nat] \cup {Cut}
    <3>1. Ids(favourites') \in [Slots -> Nat]
      BY DEF Ids, Favourites
    <3>2. saved[mode_homebrew] \in [Slots -> Nat] \cup {Cut}
      BY <1>1
    <3> QED
      BY <3>1, <3>2
  <2>4. /\ kept' \in [Modes -> Favourites]
        /\ saved' \in [Modes -> [Slots -> Nat] \cup {Cut}]
        /\ unsaved' \subseteq Modes
    BY <1>1, <2>1, <2>2, <2>3
  <2>5. \A m \in Modes : /\ kept'[m] = IF m = mode_homebrew THEN favourites' ELSE kept[m]
                         /\ saved'[m] = IF m = mode_homebrew THEN file ELSE saved[m]
    BY <1>1, <2>1, <2>2
  <2>6. ASSUME NEW m \in {GAMEBASE_MODE, HOMEBREW_MODE} \ unsaved'
        PROVE  saved'[m] = Ids(IF mode_homebrew' = m THEN favourites' ELSE kept'[m])
    <3>1. m \in Modes
      BY <1>3
    <3>2. CASE m = mode_homebrew
      BY <2>2, <2>5, <2>6, <3>1, <3>2
    <3>3. CASE m # mode_homebrew
      <4>1. m \in {GAMEBASE_MODE, HOMEBREW_MODE} \ unsaved
        BY <2>2, <2>6, <3>3
      <4> QED
        BY <1>2, <2>5, <3>1, <3>3, <4>1
    <3> QED
      BY <3>2, <3>3
  <2>7. \A m \in Modes : OnceEach(kept'[m])
    BY <1>2, <2>5
  <2> QED
    BY <2>4, <2>6, <2>7
<1> QED
  BY <1>4, <1>5
-----------------------------------------------------------------------------
(* The invariant is kept.                                                  *)

\* What is shown of a device that is as it was.
LEMMA SameShown ==
  ASSUME UNCHANGED <<cobra, mode_homebrew, game_list_category>>, NEW d, disk'[d] = disk[d]
  PROVE  ShownOf(d)' = ShownOf(d)
BY DEF ShownOf, ShownKinds, Games

\* A list is as true as it was while the devices are as they were.
LEMMA SameUncut ==
  ASSUME UNCHANGED <<cobra, mode_homebrew, game_list_category>>,
         \A d \in {"hdd", "usb", "ntfs"} : disk'[d] = disk[d]
  PROVE  /\ Uncut(directories', fdevices', forcedevices')
              => Uncut(directories, fdevices, forcedevices)'
         /\ VolumesListed(directories') => VolumesListed(directories)'
<1>1. \A d \in {"hdd", "usb", "ntfs"} : ShownOf(d)' = ShownOf(d)
  BY SameShown
<1> QED
  BY <1>1 DEF Uncut, DeviceListed, VolumesListed

\* A turn of the main loop keeps the invariant, and the list it makes is
\* sorted.
LEMMA TurnKeeps ==
  ASSUME ListsInv, NEW scans \in BOOLEAN, Turn(scans)
  PROVE  /\ ListsInv'
         /\ directories' # directories /\ ~NtfsLeft => Ordered(directories', sort_mode', mode_homebrew')
<1> DEFINE sc == IF scans THEN ScanDevices(ScanStart) ELSE ScanStart
           z == RefreshNtfs(sc)
           there == cobra /\ "ntfs" \in plugged
<1>1. DevicesSound /\ ScreenSound /\ ListedSound /\ FavouritesSound
  BY DEF ListsInv
<1>2. /\ directories' = z.list
      /\ fdevices' = z.now /\ fdevices_old' = z.old /\ forcedevices' = z.force
      /\ cramped' = z.full
      /\ IF z.insert \/ z.remove THEN Relisted(z.list)
         ELSE UNCHANGED <<favourites, havefavourites, mode_favourites>>
      /\ old_ntfs_ports' = there
      /\ UNCHANGED <<cobra, disk, plugged>> /\ UNCHANGED <<mode_homebrew, game_list_category, sort_mode>>
      /\ UNCHANGED <<kept, saved, unsaved>>
  BY DEF Turn, hardware, modes
<1>3. scans \/ (forcedevices = {} /\ fdevices # {})
  BY DEF Turn
<1>4. ScanSound(sc) /\ sc.now # {}
  <2>1. CASE scans
    <3>1. ScanSound(ScanDevices(ScanStart)) /\ "hdd" \in ScanDevices(ScanStart).now
      BY <1>1, ScanDevicesSound
    <3> QED
      BY <2>1, <3>1
  <2>2. CASE ~scans
    <3>1. ScanSound(ScanStart) /\ ScanStart.now = fdevices
      BY <1>1, ScanStarts DEF ScanStart
    <3> QED
      BY <1>3, <2>2, <3>1
  <2> QED
    BY <2>1, <2>2
<1> HIDE DEF sc
<1>5. TurnSound(z, there) /\ z.now = sc.now /\ z.force = sc.force
  BY <1>1, <1>4, RefreshNtfsSound
<1> HIDE DEF z
<1>6. /\ z \in Scan /\ z.now = z.old
      /\ "bdvd" \in z.now => ~cobra
      /\ "bdvd" \in z.force => cobra
      /\ ListSound(z.list, z.now, mode_homebrew, z.full)
      /\ \A e \in ToSet(z.list) : IsNtfs(e) => there
      /\ ~z.full => Uncut(z.list, z.now, z.force)
      /\ ~z.full /\ there => VolumesListed(z.list)
      /\ ~z.insert /\ ~z.remove => z.list = directories /\ z.now = fdevices
      /\ z.list = directories \/ NtfsLeft \/ Ordered(z.list, sort_mode, mode_homebrew)
  BY <1>5 DEF TurnSound
<1>7. /\ z.now \in SUBSET Scannable /\ z.old \in SUBSET Scannable /\ z.force \in SUBSET Scannable
      /\ z.full \in BOOLEAN /\ z.list \in Seq(GameEntry)
  BY <1>6 DEF Scan
<1>8. DevicesSound'
  <2>1. there \in BOOLEAN /\ (there => cobra)
    BY <1>1 DEF DevicesSound
  <2> HIDE DEF there
  <2> QED
    BY <1>1, <1>2, <1>6, <1>7, <2>1 DEF DevicesSound
<1>9. ListedSound'
  <2>1. ListSound(directories', fdevices', mode_homebrew', cramped')
    BY <1>2, <1>6
  <2>2. ~cramped' => Uncut(directories, fdevices, forcedevices)'
    BY <1>2, <1>6, SameUncut
  <2>3. ~cramped' /\ old_ntfs_ports' => VolumesListed(directories)'
    BY <1>2, <1>6, SameUncut
  <2>4. fdevices' # {}
    BY <1>2, <1>4, <1>5
  <2>5. \A e \in ToSet(directories') : IsNtfs(e) => old_ntfs_ports'
    BY <1>2, <1>6
  <2>6. ListSound(directories, fdevices, mode_homebrew, cramped)'
    BY <2>1 DEF ListSound
  <2> QED
    BY <2>2, <2>3, <2>4, <2>5, <2>6 DEF ListedSound
<1>10. favourites \in Favourites
  BY <1>1 DEF ScreenSound
<1>11. /\ favourites' \in Favourites /\ Ids(favourites') = Ids(favourites)
       /\ \A s \in Slots : favourites'[s].id = favourites[s].id /\ FavouriteAt(favourites'[s], directories')
       /\ havefavourites' \in BOOLEAN /\ mode_favourites' \in BOOLEAN
  <2>1. CASE z.insert \/ z.remove
    <3>1. /\ favourites' = UpdateFavourites(favourites, z.list)
          /\ havefavourites' = SomeFavourite(favourites')
          /\ mode_favourites' = (mode_favourites /\ havefavourites')
      BY <1>2, <2>1 DEF Relisted
    <3>2. LET u == UpdateFavourites(favourites, z.list)
          IN  /\ u \in Favourites /\ Ids(u) = Ids(favourites)
              /\ \A s \in Slots : u[s].id = favourites[s].id /\ FavouriteAt(u[s], z.list)
      BY <1>7, <1>10, UpdatedFavourites
    <3>3. havefavourites' \in BOOLEAN /\ mode_favourites' \in BOOLEAN
      BY <3>1 DEF SomeFavourite
    <3> QED
      BY <1>2, <3>1, <3>2, <3>3
  <2>2. CASE ~(z.insert \/ z.remove)
    <3>1. /\ favourites' = favourites /\ havefavourites' = havefavourites
          /\ mode_favourites' = mode_favourites
      BY <1>2, <2>2
    <3>2. directories' = directories /\ fdevices # {}
      BY <1>2, <1>4, <1>5, <1>6, <2>2
    <3>3. \A s \in Slots : FavouriteAt(favourites[s], directories)
      BY <1>1, <3>2 DEF FavouritesSound
    <3>4. havefavourites \in BOOLEAN /\ mode_favourites \in BOOLEAN
      BY <1>1 DEF ScreenSound
    <3> QED
      BY <1>10, <3>1, <3>2, <3>3, <3>4
  <2> QED
    BY <2>1, <2>2
<1>12. ScreenSound'
  BY <1>1, <1>2, <1>7, <1>11 DEF ScreenSound
<1>13. FavouritesSound'
  <2>1. OnceEach(favourites) /\ \A m \in Modes : OnceEach(kept[m])
    BY <1>1 DEF FavouritesSound
  <2>2. OnceEach(favourites')
    BY <1>11, <2>1, OnceEachByIds
  <2>3. \A m \in {GAMEBASE_MODE, HOMEBREW_MODE} \ unsaved' :
          saved'[m] = Ids(IF mode_homebrew' = m THEN favourites' ELSE kept'[m])
    BY <1>1, <1>2, <1>11 DEF FavouritesSound
  <2>4. \A m \in Modes : OnceEach(kept'[m])
    BY <1>2, <2>1
  <2> QED
    BY <1>11, <2>2, <2>3, <2>4 DEF FavouritesSound
<1>14. directories' # directories /\ ~NtfsLeft => Ordered(directories', sort_mode', mode_homebrew')
  BY <1>2, <1>6
<1> QED
  BY <1>8, <1>9, <1>12, <1>13, <1>14 DEF ListsInv

\* The favourites are a matter of the keys only.
LEMMA FavouritesStay ==
  ASSUME FavouritesSound, UNCHANGED <<favourites, kept, saved, unsaved, mode_homebrew, directories>>,
         fdevices' = fdevices
  PROVE  FavouritesSound'
<1>1. FavouritesSound' <=> FavouritesSound
  BY DEF FavouritesSound
<1> QED
  BY <1>1

\* A device comes: the list knows nothing of it yet.
LEMMA PlugInKeeps ==
  ASSUME ListsInv, NEW dev \in Devices, PlugIn(dev)
  PROVE  ListsInv' /\ directories' = directories
<1>1. DevicesSound /\ ScreenSound /\ ListedSound /\ FavouritesSound
  BY DEF ListsInv
<1>2. /\ dev \in {"usb"} \cup Extra /\ plugged' = plugged \cup {dev}
      /\ IF dev = "bdvd" THEN \E d \in Library[dev] : disk' = [disk EXCEPT ![dev] = {d}]
         ELSE UNCHANGED disk
      /\ UNCHANGED cobra /\ UNCHANGED <<fdevices, fdevices_old, forcedevices, old_ntfs_ports>>
      /\ UNCHANGED directories /\ UNCHANGED <<mode_homebrew, game_list_category, sort_mode>>
      /\ UNCHANGED <<mode_favourites, havefavourites, favourites, kept, saved, unsaved>> /\ UNCHANGED cramped
  BY DEF PlugIn, scanning, modes, favs
<1>3. disk \in [Devices -> SUBSET GameFile] /\ \A d \in Devices : disk[d] \subseteq Library[d]
  BY <1>1 DEF DevicesSound
<1>4. \A d \in Devices : Library[d] \subseteq GameFile
  BY GameListsAssumption DEF GameFile
<1>5. /\ disk' \in [Devices -> SUBSET GameFile] /\ \A d \in Devices : disk'[d] \subseteq Library[d]
      /\ \A d \in Devices \ {"bdvd"} : disk'[d] = disk[d]
      /\ dev = "bdvd" => disk'["bdvd"] # {}
      /\ dev # "bdvd" => disk' = disk
  <2>1. CASE dev = "bdvd"
    <3>1. PICK d \in Library[dev] : disk' = [disk EXCEPT ![dev] = {d}]
      BY <1>2, <2>1
    <3>2. {d} \subseteq Library[dev] /\ {d} \in SUBSET GameFile
      BY <1>4
    <3> QED
      BY <1>3, <2>1, <3>1, <3>2
  <2>2. CASE dev # "bdvd"
    BY <1>2, <1>3, <2>2
  <2> QED
    BY <2>1, <2>2
<1>6. (dev = "bdvd" => ~cobra) /\ (dev = "ntfs" => cobra)
  BY <1>2 DEF Extra
<1>7. DevicesSound'
  <2>1. plugged' \subseteq Devices /\ "hdd" \in plugged'
    BY <1>1, <1>2 DEF DevicesSound
  <2>2. "bdvd" \in plugged' => ~cobra' /\ disk'["bdvd"] # {}
    BY <1>1, <1>2, <1>5, <1>6 DEF DevicesSound
  <2>3. "ntfs" \in plugged' => cobra'
    BY <1>1, <1>2, <1>6 DEF DevicesSound
  <2> QED
    BY <1>1, <1>2, <1>5, <2>1, <2>2, <2>3 DEF DevicesSound
<1>8. ScreenSound'
  BY <1>1, <1>2 DEF ScreenSound
<1>9. ListedSound'
  <2>1. \A d \in {"hdd", "usb", "ntfs"} : disk'[d] = disk[d]
    BY <1>5 DEF Devices
  <2>2. /\ Uncut(directories', fdevices', forcedevices') => Uncut(directories, fdevices, forcedevices)'
        /\ VolumesListed(directories') => VolumesListed(directories)'
    BY <1>2, <2>1, SameUncut
  <2>3. ListSound(directories, fdevices, mode_homebrew, cramped)'
    BY <1>1, <1>2 DEF ListedSound, ListSound
  <2> QED
    BY <1>1, <1>2, <2>2, <2>3 DEF ListedSound
<1>10. FavouritesSound'
  BY <1>1, <1>2, FavouritesStay
<1> QED
  BY <1>2, <1>7, <1>8, <1>9, <1>10 DEF ListsInv

\* A device goes.
LEMMA PullOutKeeps ==
  ASSUME ListsInv, NEW dev \in Devices, PullOut(dev)
  PROVE  ListsInv' /\ directories' = directories
<1>1. DevicesSound /\ ScreenSound /\ ListedSound /\ FavouritesSound
  BY DEF ListsInv
<1>2. /\ dev # "hdd" /\ plugged' = plugged \ {dev}
      /\ UNCHANGED <<cobra, disk>> /\ UNCHANGED <<fdevices, fdevices_old, forcedevices, old_ntfs_ports>>
      /\ UNCHANGED directories /\ UNCHANGED <<mode_homebrew, game_list_category, sort_mode>>
      /\ UNCHANGED <<mode_favourites, havefavourites, favourites, kept, saved, unsaved>> /\ UNCHANGED cramped
  BY DEF PullOut, scanning, modes, favs
<1>3. DevicesSound'
  BY <1>1, <1>2 DEF DevicesSound
<1>4. ScreenSound'
  BY <1>1, <1>2 DEF ScreenSound
<1>5. ListedSound'
  <2>1. /\ Uncut(directories', fdevices', forcedevices') => Uncut(directories, fdevices, forcedevices)'
        /\ VolumesListed(directories') => VolumesListed(directories)'
    BY <1>2, SameUncut
  <2>2. ListSound(directories, fdevices, mode_homebrew, cramped)'
    BY <1>1, <1>2 DEF ListedSound, ListSound
  <2> QED
    BY <1>1, <1>2, <2>1, <2>2 DEF ListedSound
<1>6. FavouritesSound'
  BY <1>1, <1>2, FavouritesStay
<1> QED
  BY <1>2, <1>3, <1>4, <1>5, <1>6 DEF ListsInv

\* A game is deleted: its device is to be listed again, but for a game of an
\* NTFS volume. What that had shown of PSX games stays in the list.
LEMMA DeleteGameKeeps ==
  ASSUME ListsInv, NEW n \in DOMAIN directories, DeleteGame(n)
  PROVE  ListsInv' /\ directories' = directories
<1> DEFINE e == directories[n]
           gone == [id |-> e.id, kind |-> e.kind]
<1>1. DevicesSound /\ ScreenSound /\ ListedSound /\ FavouritesSound
  BY DEF ListsInv
<1>2. /\ ~IsDisc(e) /\ fdevices # {} /\ forcedevices = {} /\ e.kind \in {"folder", "homebrew", "psx"}
      /\ disk' = [disk EXCEPT ![e.dev] = @ \ {gone}]
      /\ forcedevices' = {IF e.dev = "ntfs" THEN "bdvd" ELSE e.dev}
      /\ UNCHANGED <<cobra, plugged, fdevices, fdevices_old, old_ntfs_ports, directories, cramped>>
      /\ UNCHANGED <<mode_homebrew, game_list_category, sort_mode>>
      /\ UNCHANGED <<mode_favourites, havefavourites, favourites, kept, saved, unsaved>>
  BY DEF DeleteGame, Scanned, modes, favs
<1>3. e \in GameEntry /\ e \in ToSet(directories)
  <2>1. directories \in Seq(GameEntry)
    BY <1>1 DEF ListedSound, ListSound
  <2>2. n \in 1 .. Len(directories)
    BY <2>1
  <2> QED
    BY <2>1, <2>2, InToSet
<1>4. e.dev \in {"hdd", "usb", "ntfs"} /\ (e.dev = "ntfs" => cobra)
  <2>1. e.dev \in Devices
    BY <1>3 DEF GameEntry
  <2>2. e.dev = "ntfs" => old_ntfs_ports
    BY <1>1, <1>3 DEF ListedSound, IsNtfs
  <2> QED
    BY <1>1, <1>2, <2>1, <2>2 DEF Devices, IsDisc, DevicesSound
<1> HIDE DEF e
<1>5. disk \in [Devices -> SUBSET GameFile] /\ \A d \in Devices : disk[d] \subseteq Library[d]
  BY <1>1 DEF DevicesSound
<1>6. \A d \in Devices : disk'[d] = IF d = e.dev THEN disk[d] \ {gone} ELSE disk[d]
  BY <1>2, <1>5
<1>7. disk' \in [Devices -> SUBSET GameFile] /\ \A d \in Devices : disk'[d] \subseteq Library[d]
  BY <1>2, <1>4, <1>5, <1>6 DEF Devices
<1>8. DevicesSound'
  <2>1. "bdvd" \in plugged => disk'["bdvd"] # {}
    BY <1>1, <1>4, <1>6 DEF DevicesSound, Devices
  <2>2. forcedevices' \subseteq Scannable /\ ("bdvd" \in forcedevices' => cobra)
    BY <1>2, <1>4 DEF Scannable
  <2> QED
    BY <1>1, <1>2, <1>7, <2>1, <2>2 DEF DevicesSound
<1>9. ScreenSound'
  BY <1>1, <1>2 DEF ScreenSound
<1>10. ASSUME NEW d \in {"hdd", "usb", "ntfs"}, d # e.dev
       PROVE  ShownOf(d)' = ShownOf(d)
  <2>1. disk'[d] = disk[d]
    BY <1>6, <1>10 DEF Devices
  <2> QED
    BY <1>2, <2>1, SameShown
<1>11. ~cramped => Uncut(directories, fdevices, forcedevices)'
  <2>1. SUFFICES ASSUME ~cramped PROVE Uncut(directories, fdevices, forcedevices)'
    OBVIOUS
  <2>2. Uncut(directories, fdevices, forcedevices)
    BY <1>1, <2>1 DEF ListedSound
  <2>3. ASSUME NEW d \in {"hdd", "usb"} \ forcedevices'
        PROVE  DeviceListed(directories, d, d \in fdevices)'
    <3>1. d \in {"hdd", "usb"} /\ d # e.dev
      BY <1>2, <1>4
    <3>2. DeviceListed(directories, d, d \in fdevices)
      BY <1>2, <2>2, <3>1 DEF Uncut
    <3>3. ShownOf(d)' = ShownOf(d)
      BY <1>10, <3>1
    <3> QED
      BY <1>2, <3>2, <3>3 DEF DeviceListed
  <2> QED
    BY <1>2, <2>2, <2>3 DEF Uncut
<1>12. ~cramped /\ fdevices # {} /\ old_ntfs_ports => VolumesListed(directories)'
  <2>1. SUFFICES ASSUME ~cramped, fdevices # {}, old_ntfs_ports PROVE VolumesListed(directories)'
    OBVIOUS
  <2>2. VolumesListed(directories)
    BY <1>1, <2>1 DEF ListedSound
  <2>3. CASE e.dev # "ntfs"
    BY <1>2, <1>10, <2>2, <2>3 DEF VolumesListed
  <2>4. CASE e.dev = "ntfs"
    <3>1. ShownKinds("ntfs")' = ShownKinds("ntfs")
      BY <1>2 DEF ShownKinds, Games
    <3>2. disk'["ntfs"] = disk["ntfs"] \ {gone}
      BY <1>6, <2>4 DEF Devices
    <3>3. ShownOf("ntfs")' \subseteq ShownOf("ntfs")
      BY <3>1, <3>2 DEF ShownOf, Made
    <3>4. ASSUME NEW x \in ShownOf("ntfs"), x \notin ShownOf("ntfs")'
          PROVE  x.kind = "psx"
      <4>1. PICK f \in disk["ntfs"] : /\ f.kind \in ShownKinds("ntfs")
                                      /\ x = [id |-> f.id, dev |-> "ntfs", kind |-> f.kind]
        BY DEF ShownOf, Made
      <4>2. f = gone
        BY <3>1, <3>2, <3>4, <4>1 DEF ShownOf, Made
      <4>3. "folder" \notin ShownKinds("ntfs") /\ "homebrew" \notin ShownKinds("ntfs")
        BY DEF ShownKinds
      <4>4. f.kind = e.kind /\ x.kind = f.kind
        BY <4>1, <4>2
      <4> QED
        BY <1>2, <4>1, <4>3, <4>4
    <3> QED
      BY <1>2, <2>2, <3>3, <3>4 DEF VolumesListed
  <2> QED
    BY <2>3, <2>4
<1>13. ListedSound'
  <2>1. ListSound(directories, fdevices, mode_homebrew, cramped)'
    BY <1>1, <1>2 DEF ListedSound, ListSound
  <2> QED
    BY <1>1, <1>2, <1>11, <1>12, <2>1 DEF ListedSound
<1>14. FavouritesSound'
  BY <1>1, <1>2, FavouritesStay
<1> QED
  BY <1>2, <1>8, <1>9, <1>13, <1>14 DEF ListsInv

\* The order is changed, or the favourites are left.
LEMMA NextSortKeeps ==
  ASSUME ListsInv, Scanned, NextSort
  PROVE  /\ ListsInv'
         /\ directories' # directories => Ordered(directories', sort_mode', mode_homebrew')
<1>1. DevicesSound /\ ScreenSound /\ ListedSound /\ FavouritesSound
  BY DEF ListsInv
<1>2. /\ UNCHANGED <<cobra, disk, plugged>>
      /\ UNCHANGED <<fdevices, fdevices_old, forcedevices, old_ntfs_ports>>
      /\ UNCHANGED <<mode_homebrew, game_list_category, kept, saved, unsaved, cramped>>
      /\ fdevices # {}
  BY DEF NextSort, hardware, scanning, Scanned
<1>3. DevicesSound'
  BY <1>1, <1>2 DEF DevicesSound
<1>4. CASE mode_favourites
  <2>1. mode_favourites' = FALSE /\ UNCHANGED <<sort_mode, directories, favourites, havefavourites>>
    BY <1>4 DEF NextSort
  <2>2. ScreenSound'
    BY <1>1, <1>2, <2>1 DEF ScreenSound
  <2>3. ListedSound'
    <3>1. ListSound(directories, fdevices, mode_homebrew, cramped)'
      BY <1>1, <1>2, <2>1 DEF ListedSound, ListSound
    <3>2. /\ Uncut(directories', fdevices', forcedevices') => Uncut(directories, fdevices, forcedevices)'
          /\ VolumesListed(directories') => VolumesListed(directories)'
      BY <1>2, SameUncut
    <3> QED
      BY <1>1, <1>2, <2>1, <3>1, <3>2 DEF ListedSound
  <2>4. FavouritesSound'
    BY <1>1, <1>2, <2>1, FavouritesStay
  <2> QED
    BY <1>3, <2>1, <2>2, <2>3, <2>4 DEF ListsInv
<1>5. CASE ~mode_favourites
  <2>1. /\ sort_mode' = SortModeAfter(sort_mode)
        /\ directories' = sort_entries2(directories, sort_mode', mode_homebrew)
        /\ favourites' = UpdateFavourites(favourites, directories')
        /\ havefavourites' = SomeFavourite(favourites')
        /\ UNCHANGED mode_favourites
    BY <1>5 DEF NextSort
  <2>2. sort_mode' \in 0 .. 2 /\ mode_homebrew \in Modes /\ favourites \in Favourites
    BY <1>1, <2>1 DEF ScreenSound, SortModeAfter
  <2>3. ListSound(directories, fdevices, mode_homebrew, TRUE)
    BY <1>1 DEF ListedSound, ListSound
  <2>4. /\ ListSound(directories', fdevices, mode_homebrew, TRUE)
        /\ ToSet(directories') = ToSet(directories) /\ Len(directories') = Len(directories)
        /\ Ordered(directories', sort_mode', mode_homebrew)
    <3> DEFINE order == sort_mode'
               y == sort_entries2(directories, order, mode_homebrew)
    <3>1. order \in 0 .. 2
      BY <2>2
    <3> HIDE DEF order
    <3>2. /\ ListSound(y, fdevices, mode_homebrew, TRUE) /\ ToSet(y) = ToSet(directories)
          /\ Len(y) = Len(directories) /\ Ordered(y, order, mode_homebrew)
      BY <2>2, <2>3, <3>1, SortedSound
    <3>3. directories' = y
      BY <2>1 DEF order
    <3> QED
      BY <3>2, <3>3 DEF order
  <2>5. directories' \in Seq(GameEntry)
    BY <2>4 DEF ListSound
  <2>6. /\ favourites' \in Favourites /\ Ids(favourites') = Ids(favourites)
        /\ \A s \in Slots : favourites'[s].id = favourites[s].id /\ FavouriteAt(favourites'[s], directories')
    <3>1. LET u == UpdateFavourites(favourites, directories')
          IN  /\ u \in Favourites /\ Ids(u) = Ids(favourites)
              /\ \A s \in Slots : u[s].id = favourites[s].id /\ FavouriteAt(u[s], directories')
      BY <2>2, <2>5, UpdatedFavourites
    <3> QED
      BY <2>1, <3>1
  <2>7. ScreenSound'
    <3>1. havefavourites' \in BOOLEAN
      BY <2>1 DEF SomeFavourite
    <3> QED
      BY <1>1, <1>2, <2>1, <2>2, <2>6, <3>1 DEF ScreenSound
  <2>8. ListedSound'
    <3>1. ListSound(directories', fdevices, mode_homebrew, cramped)
      BY <1>1, <2>4 DEF ListedSound, ListSound
    <3>2. ListSound(directories, fdevices, mode_homebrew, cramped)'
      BY <1>2, <3>1 DEF ListSound
    <3>3. /\ Uncut(directories', fdevices', forcedevices') => Uncut(directories, fdevices, forcedevices)'
          /\ VolumesListed(directories') => VolumesListed(directories)'
      BY <1>2, SameUncut
    <3>4. ~cramped => Uncut(directories', fdevices, forcedevices)
      BY <1>1, <2>4 DEF ListedSound, Uncut, DeviceListed
    <3>5. ~cramped /\ old_ntfs_ports => VolumesListed(directories')
      BY <1>1, <1>2, <2>4 DEF ListedSound, VolumesListed
    <3>6. \A e \in ToSet(directories') : IsNtfs(e) => old_ntfs_ports
      BY <1>1, <2>4 DEF ListedSound
    <3> QED
      BY <1>2, <3>2, <3>3, <3>4, <3>5, <3>6 DEF ListedSound
  <2>9. FavouritesSound'
    <3>1. OnceEach(favourites) /\ \A m \in Modes : OnceEach(kept[m])
      BY <1>1 DEF FavouritesSound
    <3>2. OnceEach(favourites')
      BY <2>6, <3>1, OnceEachByIds
    <3>3. \A m \in {GAMEBASE_MODE, HOMEBREW_MODE} \ unsaved' :
            saved'[m] = Ids(IF mode_homebrew' = m THEN favourites' ELSE kept'[m])
      BY <1>1, <1>2, <2>6 DEF FavouritesSound
    <3>4. \A m \in Modes : OnceEach(kept'[m])
      BY <1>2, <3>1
    <3> QED
      BY <2>6, <3>2, <3>3, <3>4 DEF FavouritesSound
  <2> QED
    BY <1>2, <1>3, <2>4, <2>7, <2>8, <2>9 DEF ListsInv
<1> QED
  BY <1>4, <1>5

\* The empty list is in order.
LEMMA EmptyIsSound ==
  ASSUME NEW mode, NEW order
  PROVE  /\ ListSound(<< >>, {}, mode, FALSE) /\ ToSet(<< >>) = {}
         /\ Ordered(<< >>, order, mode)
<1>1. << >> \in Seq(GameEntry) /\ Len(<< >>) = 0 /\ ToSet(<< >>) = {} /\ DOMAIN << >> = {}
  BY DEF ToSet
<1>2. Distinct(<< >>)
  BY <1>1 DEF Distinct
<1>3. Capacity \in Nat \ {0} /\ Overrun(<< >>)
  <2>1. Len(<< >>) <= Capacity
    BY <1>1, CapacityAssumption
  <2> QED
    BY <1>1, <2>1, NoOverrun, CapacityAssumption
<1>4. ListSound(<< >>, {}, mode, FALSE)
  BY <1>1, <1>2, <1>3 DEF ListSound
<1>5. Ordered(<< >>, order, mode)
  BY <1>1 DEF Ordered
<1> QED
  BY <1>1, <1>4, <1>5

\* Another mode: its favourites take the place of those of the one left.
LEMMA SetAndGetKeeps ==
  ASSUME ScreenSound, FavouritesSound, NEW mode \in Modes, mode # mode_homebrew, SetAndGet(mode)
  PROVE  /\ mode_homebrew' \in Modes /\ favourites' \in Favourites /\ kept' \in [Modes -> Favourites]
         /\ UNCHANGED <<saved, unsaved, havefavourites>>
         /\ OnceEach(favourites') /\ \A m \in Modes : OnceEach(kept'[m])
         /\ \A m \in {GAMEBASE_MODE, HOMEBREW_MODE} \ unsaved' :
              saved'[m] = Ids(IF mode_homebrew' = m THEN favourites' ELSE kept'[m])
<1>1. /\ mode_homebrew' = mode /\ favourites' = kept[mode]
      /\ saved' = saved /\ unsaved' = unsaved
      /\ havefavourites' = havefavourites
      /\ kept' = IF mode_homebrew = FILM_MODE THEN kept ELSE [kept EXCEPT ![mode_homebrew] = favourites]
  BY DEF SetAndGet
<1>2. /\ kept \in [Modes -> Favourites] /\ favourites \in Favourites /\ mode_homebrew \in Modes
  BY DEF ScreenSound
<1>3. /\ OnceEach(favourites) /\ \A m \in Modes : OnceEach(kept[m])
      /\ \A m \in {GAMEBASE_MODE, HOMEBREW_MODE} \ unsaved :
           saved[m] = Ids(IF mode_homebrew = m THEN favourites ELSE kept[m])
  BY DEF FavouritesSound
<1>4. \A m \in Modes : kept'[m] = IF m = mode_homebrew /\ m # FILM_MODE THEN favourites ELSE kept[m]
  BY <1>1, <1>2
<1>5. kept' \in [Modes -> Favourites]
  BY <1>1, <1>2
<1>6. \A m \in Modes : OnceEach(kept'[m])
  BY <1>3, <1>4
<1>7. OnceEach(favourites')
  BY <1>1, <1>3
<1>8. ASSUME NEW m \in {GAMEBASE_MODE, HOMEBREW_MODE} \ unsaved'
      PROVE  saved'[m] = Ids(IF mode_homebrew' = m THEN favourites' ELSE kept'[m])
  <2>1. m \in Modes /\ m # FILM_MODE
    BY DEF Modes, GAMEBASE_MODE, HOMEBREW_MODE, FILM_MODE
  <2>2. CASE m = mode
    BY <1>1, <1>3, <2>2
  <2>3. CASE m # mode /\ m = mode_homebrew
    <3>1. kept'[m] = favourites
      BY <1>4, <2>1, <2>3
    <3> QED
      BY <1>1, <1>3, <2>3, <3>1
  <2>4. CASE m # mode /\ m # mode_homebrew
    <3>1. kept'[m] = kept[m]
      BY <1>4, <2>1, <2>4
    <3> QED
      BY <1>1, <1>3, <2>4, <3>1
  <2> QED
    BY <2>2, <2>3, <2>4
<1> QED
  BY <1>1, <1>2, <1>5, <1>6, <1>7, <1>8

\* Both mode keys: the list starts from nothing.
LEMMA ResetKeeps ==
  ASSUME ListsInv, ListReset,
         mode_homebrew' \in Modes, game_list_category' \in 0 .. 2, mode_favourites' \in BOOLEAN,
         havefavourites' = havefavourites, saved' = saved, unsaved' = unsaved,
         favourites' \in Favourites, kept' \in [Modes -> Favourites],
         OnceEach(favourites'), \A m \in Modes : OnceEach(kept'[m]),
         \A m \in {GAMEBASE_MODE, HOMEBREW_MODE} \ unsaved' :
           saved'[m] = Ids(IF mode_homebrew' = m THEN favourites' ELSE kept'[m])
  PROVE  ListsInv' /\ Ordered(directories', sort_mode', mode_homebrew')
<1>1. DevicesSound /\ ScreenSound /\ ListedSound /\ FavouritesSound
  BY DEF ListsInv
<1>2. /\ directories' = << >> /\ cramped' = FALSE
      /\ fdevices' = {} /\ fdevices_old' = {} /\ forcedevices' = {}
      /\ UNCHANGED <<cobra, disk, plugged>> /\ UNCHANGED <<old_ntfs_ports, sort_mode>>
  BY DEF ListReset, hardware
<1>3. DevicesSound'
  BY <1>1, <1>2 DEF DevicesSound, Scannable
<1>4. ScreenSound'
  BY <1>1, <1>2 DEF ScreenSound
<1>5. /\ ListSound(<< >>, {}, mode_homebrew', FALSE) /\ ToSet(<< >>) = {}
      /\ Ordered(<< >>, sort_mode', mode_homebrew')
  BY EmptyIsSound
<1>6. ListSound(directories, fdevices, mode_homebrew, cramped)'
  <2>1. ListSound(directories', fdevices', mode_homebrew', cramped')
    BY <1>2, <1>5
  <2> QED
    BY <2>1 DEF ListSound
<1>7. Uncut(directories, fdevices, forcedevices)'
  BY <1>2, <1>5 DEF Uncut, DeviceListed
<1>8. ListedSound'
  BY <1>2, <1>5, <1>6, <1>7 DEF ListedSound
<1>9. FavouritesSound'
  BY <1>2 DEF FavouritesSound
<1> QED
  BY <1>2, <1>3, <1>4, <1>5, <1>8, <1>9 DEF ListsInv

\* R3.
LEMMA R3Keeps ==
  ASSUME ListsInv, R3
  PROVE  ListsInv' /\ Ordered(directories', sort_mode', mode_homebrew')
<1>1. ScreenSound /\ FavouritesSound /\ ListReset
  BY DEF ListsInv, R3
<1>2. /\ mode_homebrew \in Modes /\ game_list_category \in 0 .. 2
      /\ mode_favourites \in BOOLEAN
      /\ favourites \in Favourites /\ kept \in [Modes -> Favourites]
      /\ OnceEach(favourites) /\ \A m \in Modes : OnceEach(kept[m])
      /\ \A m \in {GAMEBASE_MODE, HOMEBREW_MODE} \ unsaved :
           saved[m] = Ids(IF mode_homebrew = m THEN favourites ELSE kept[m])
  BY <1>1 DEF ScreenSound, FavouritesSound
<1>3. Modes = {0, 2, 3} /\ GAMEBASE_MODE = 0 /\ HOMEBREW_MODE = 2 /\ FILM_MODE = 3
  BY DEF Modes, GAMEBASE_MODE, HOMEBREW_MODE, FILM_MODE
<1>4. CASE game_list_category = 0 /\ mode_homebrew = GAMEBASE_MODE
  <2>1. SetAndGet(HOMEBREW_MODE) /\ mode_favourites' = TRUE /\ UNCHANGED game_list_category
    BY <1>4 DEF R3
  <2>2. HOMEBREW_MODE \in Modes /\ HOMEBREW_MODE # mode_homebrew
    BY <1>3, <1>4
  <2> QED
    BY <1>1, <1>2, <2>1, <2>2, SetAndGetKeeps, ResetKeeps
<1>5. CASE mode_homebrew # GAMEBASE_MODE
  <2> DEFINE mode == IF mode_homebrew = HOMEBREW_MODE THEN FILM_MODE ELSE GAMEBASE_MODE
  <2>1. SetAndGet(mode) /\ game_list_category' = 1 /\ mode_favourites' = FALSE
    BY <1>5 DEF R3
  <2>2. mode \in Modes /\ mode # mode_homebrew
    BY <1>2, <1>3, <1>5
  <2> HIDE DEF mode
  <2>3. /\ mode_homebrew' \in Modes /\ favourites' \in Favourites /\ kept' \in [Modes -> Favourites]
        /\ UNCHANGED <<saved, unsaved, havefavourites>>
        /\ OnceEach(favourites') /\ \A m \in Modes : OnceEach(kept'[m])
        /\ \A m \in {GAMEBASE_MODE, HOMEBREW_MODE} \ unsaved' :
             saved'[m] = Ids(IF mode_homebrew' = m THEN favourites' ELSE kept'[m])
    BY <1>1, <2>1, <2>2, SetAndGetKeeps
  <2>4. game_list_category' \in 0 .. 2 /\ mode_favourites' \in BOOLEAN
    <3>1. 1 \in 0 .. 2 /\ FALSE \in BOOLEAN
      OBVIOUS
    <3> QED
      BY <2>1, <3>1
  <2> QED
    BY <1>1, <2>3, <2>4, ResetKeeps
<1>6. CASE ~(game_list_category = 0 /\ mode_homebrew = GAMEBASE_MODE) /\ mode_homebrew = GAMEBASE_MODE
  <2>1. /\ UNCHANGED <<mode_homebrew, favourites, kept, saved, unsaved, havefavourites>>
        /\ game_list_category' = (game_list_category + 1) % 3
        /\ mode_favourites' = (game_list_category' = 0)
    BY <1>6 DEF R3, KeepMode
  <2>2. game_list_category' \in 0 .. 2 /\ mode_favourites' \in BOOLEAN
    BY <1>2, <2>1
  <2> QED
    BY <1>1, <1>2, <2>1, <2>2, ResetKeeps
<1> QED
  BY <1>4, <1>5, <1>6

\* L3.
LEMMA L3Keeps ==
  ASSUME ListsInv, L3
  PROVE  ListsInv' /\ Ordered(directories', sort_mode', mode_homebrew')
<1>1. ScreenSound /\ FavouritesSound /\ ListReset
  BY DEF ListsInv, L3
<1>2. /\ mode_homebrew \in Modes /\ game_list_category \in 0 .. 2
      /\ mode_favourites \in BOOLEAN
      /\ favourites \in Favourites /\ kept \in [Modes -> Favourites]
      /\ OnceEach(favourites) /\ \A m \in Modes : OnceEach(kept[m])
      /\ \A m \in {GAMEBASE_MODE, HOMEBREW_MODE} \ unsaved :
           saved[m] = Ids(IF mode_homebrew = m THEN favourites ELSE kept[m])
  BY <1>1 DEF ScreenSound, FavouritesSound
<1>3. Modes = {0, 2, 3} /\ GAMEBASE_MODE = 0 /\ HOMEBREW_MODE = 2 /\ FILM_MODE = 3
  BY DEF Modes, GAMEBASE_MODE, HOMEBREW_MODE, FILM_MODE
<1>4. CASE game_list_category = 1 /\ mode_homebrew = GAMEBASE_MODE
  <2>1. SetAndGet(FILM_MODE) /\ mode_favourites' = TRUE /\ UNCHANGED game_list_category
    BY <1>4 DEF L3
  <2>2. FILM_MODE \in Modes /\ FILM_MODE # mode_homebrew
    BY <1>3, <1>4
  <2> QED
    BY <1>1, <1>2, <2>1, <2>2, SetAndGetKeeps, ResetKeeps
<1>5. CASE mode_homebrew # GAMEBASE_MODE
  <2> DEFINE mode == IF mode_homebrew = HOMEBREW_MODE THEN GAMEBASE_MODE ELSE HOMEBREW_MODE
  <2>1. SetAndGet(mode) /\ game_list_category' = 0 /\ mode_favourites' = TRUE
    BY <1>5 DEF L3
  <2>2. mode \in Modes /\ mode # mode_homebrew
    BY <1>2, <1>3, <1>5
  <2> HIDE DEF mode
  <2> QED
    BY <1>1, <1>2, <2>1, <2>2, SetAndGetKeeps, ResetKeeps
<1>6. CASE ~(game_list_category = 1 /\ mode_homebrew = GAMEBASE_MODE) /\ mode_homebrew = GAMEBASE_MODE
  <2>1. /\ UNCHANGED <<mode_homebrew, favourites, kept, saved, unsaved, havefavourites>>
        /\ game_list_category' = (game_list_category + 2) % 3
        /\ mode_favourites' = FALSE
    BY <1>6 DEF L3, KeepMode
  <2>2. game_list_category' \in 0 .. 2
    <3>1. game_list_category = 0 \/ game_list_category = 1 \/ game_list_category = 2
      BY <1>2
    <3> QED
      BY <2>1, <3>1
  <2>3. mode_favourites' \in BOOLEAN
    BY <2>1
  <2> QED
    BY <1>1, <1>2, <2>1, <2>2, <2>3, ResetKeeps
<1> QED
  BY <1>4, <1>5, <1>6

\* The favourites change, and nothing of the list.
LEMMA FavouritesKept ==
  ASSUME ListsInv, Scanned, Changed, SaveFavourites,
         favourites' \in Favourites, OnceEach(favourites'),
         \A s \in Slots : FavouriteAt(favourites'[s], directories),
         havefavourites' \in BOOLEAN, mode_favourites' \in BOOLEAN
  PROVE  ListsInv' /\ directories' = directories
<1>1. DevicesSound /\ ScreenSound /\ ListedSound /\ FavouritesSound
  BY DEF ListsInv
<1>2. /\ UNCHANGED <<cobra, disk, plugged>>
      /\ UNCHANGED <<fdevices, fdevices_old, forcedevices, old_ntfs_ports>>
      /\ UNCHANGED directories /\ UNCHANGED <<mode_homebrew, game_list_category, sort_mode>>
      /\ UNCHANGED cramped
  BY DEF Changed, hardware, scanning, modes
<1>3. /\ kept' \in [Modes -> Favourites]
      /\ saved' \in [Modes -> [Slots -> Nat] \cup {Cut}] /\ unsaved' \subseteq Modes
      /\ \A m \in Modes : OnceEach(kept'[m])
      /\ \A m \in {GAMEBASE_MODE, HOMEBREW_MODE} \ unsaved' :
           saved'[m] = Ids(IF mode_homebrew' = m THEN favourites' ELSE kept'[m])
  BY <1>1, <1>2, SaveKeeps
<1>4. DevicesSound'
  BY <1>1, <1>2 DEF DevicesSound
<1>5. ScreenSound'
  BY <1>1, <1>2, <1>3 DEF ScreenSound
<1>6. ListedSound'
  <2>1. ListSound(directories, fdevices, mode_homebrew, cramped)'
    BY <1>1, <1>2 DEF ListedSound, ListSound
  <2>2. /\ Uncut(directories', fdevices', forcedevices') => Uncut(directories, fdevices, forcedevices)'
        /\ VolumesListed(directories') => VolumesListed(directories)'
    BY <1>2, SameUncut
  <2> QED
    BY <1>1, <1>2, <2>1, <2>2 DEF ListedSound
<1>7. FavouritesSound'
  BY <1>2, <1>3 DEF FavouritesSound
<1> QED
  BY <1>2, <1>4, <1>5, <1>6, <1>7 DEF ListsInv

\* A favourite is taken off: its slot is empty.
LEMMA FavouriteDeleted ==
  ASSUME NEW f \in Favourites, NEW id, OnceEach(f)
  PROVE  LET u == DeleteFavouritesIfExits(f, id)
         IN  /\ u \in Favourites /\ OnceEach(u)
             /\ \A s \in Slots : u[s] = f[s] \/ u[s] = NoFavourite
<1> DEFINE u == DeleteFavouritesIfExits(f, id)
<1>1. DOMAIN f = Slots /\ NoFavourite \in [id : Nat, index : Int] /\ NoFavourite.id = 0
  BY DEF Favourites, NoFavourite
<1>2. u = [s \in Slots |-> IF f[s].id = id THEN NoFavourite ELSE f[s]]
  BY <1>1 DEF DeleteFavouritesIfExits
<1>3. u \in Favourites
  BY <1>1, <1>2 DEF Favourites
<1>4. \A s \in Slots : u[s] = f[s] \/ u[s] = NoFavourite
  BY <1>2
<1> HIDE DEF u
<1>5. OnceEach(u)
  BY <1>1, <1>4 DEF OnceEach
<1> QED
  BY <1>3, <1>4, <1>5 DEF u

\* A game becomes a favourite that was none.
LEMMA InsertFavouriteKeeps ==
  ASSUME ListsInv, Scanned, NEW s \in Slots, NEW n \in 0 .. Len(directories) - 1,
         InsertFavourite(s, n)
  PROVE  ListsInv' /\ directories' = directories
<1> DEFINE id == directories[n + 1].id
           f == DeleteFavouritesIfExits(favourites, id)
           new == [id |-> id, index |-> n]
<1>1. ScreenSound /\ FavouritesSound /\ ListedSound
  BY DEF ListsInv
<1>2. /\ ~TestFavouritesExits(favourites, id)
      /\ favourites' = AddFavourites(f, s, directories, n)
      /\ havefavourites' = TRUE /\ mode_favourites' = TRUE
      /\ SaveFavourites /\ Changed
  BY DEF InsertFavourite
<1>3. favourites \in Favourites /\ OnceEach(favourites)
  BY <1>1 DEF ScreenSound, FavouritesSound
<1>4. f \in Favourites /\ OnceEach(f) /\ \A t \in Slots : f[t] = favourites[t] \/ f[t] = NoFavourite
  BY <1>3, FavouriteDeleted
<1>5. n \in Nat /\ n < Len(directories) /\ id \in Nat \ {0} /\ Len(directories) \in Nat
  <2>1. directories \in Seq(GameEntry)
    BY <1>1 DEF ListedSound, ListSound
  <2>2. n + 1 \in 1 .. Len(directories) /\ n \in Nat /\ n < Len(directories) /\ Len(directories) \in Nat
    BY <2>1
  <2>3. directories[n + 1] \in GameEntry
    BY <2>1, <2>2
  <2> QED
    BY <2>2, <2>3 DEF GameEntry
<1>6. \A t \in Slots : f[t].id # id
  <2>1. \A t \in Slots : favourites[t].id # id
    BY <1>2, <1>3 DEF TestFavouritesExits, Favourites
  <2>2. NoFavourite.id = 0
    BY DEF NoFavourite
  <2> QED
    BY <1>4, <1>5, <2>1, <2>2
<1> HIDE DEF f
<1>7. favourites' = [f EXCEPT ![s] = new]
  BY <1>2 DEF AddFavourites
<1>8. new \in [id : Nat, index : Int] /\ new.id = id /\ FavouriteAt(new, directories)
  BY <1>5 DEF FavouriteAt
<1> HIDE DEF new, id
<1>9. favourites' \in Favourites /\ \A t \in Slots : favourites'[t] = IF t = s THEN new ELSE f[t]
  BY <1>4, <1>7, <1>8 DEF Favourites
<1>10. OnceEach(favourites')
  <2>1. SUFFICES ASSUME NEW t \in Slots, NEW r \in Slots, favourites'[t].id = favourites'[r].id,
                        favourites'[t].id # 0
                 PROVE  t = r
    BY DEF OnceEach
  <2>2. CASE t # s /\ r # s
    BY <1>4, <1>9, <2>1, <2>2 DEF OnceEach
  <2>3. CASE t = s /\ r # s
    BY <1>6, <1>8, <1>9, <2>1, <2>3
  <2>4. CASE t # s /\ r = s
    BY <1>6, <1>8, <1>9, <2>1, <2>4
  <2> QED
    BY <2>2, <2>3, <2>4
<1>11. \A t \in Slots : FavouriteAt(favourites'[t], directories)
  <2>1. \A t \in Slots : FavouriteAt(favourites[t], directories)
    BY <1>1 DEF FavouritesSound, Scanned
  <2>2. FavouriteAt(NoFavourite, directories)
    BY DEF FavouriteAt, NoFavourite
  <2> QED
    BY <1>4, <1>8, <1>9, <2>1, <2>2
<1> QED
  BY <1>2, <1>9, <1>10, <1>11, FavouritesKept

\* Two favourites change places.
LEMMA SwapFavouritesKeeps ==
  ASSUME ListsInv, Scanned, NEW s \in Slots, NEW t \in Slots, SwapFavourites(s, t)
  PROVE  ListsInv' /\ directories' = directories
<1>1. ScreenSound /\ FavouritesSound
  BY DEF ListsInv
<1>2. /\ favourites' = [favourites EXCEPT ![s] = favourites[t], ![t] = favourites[s]]
      /\ SaveFavourites /\ Changed /\ UNCHANGED <<havefavourites, mode_favourites>>
  BY DEF SwapFavourites
<1>3. /\ favourites \in Favourites /\ OnceEach(favourites)
      /\ havefavourites' \in BOOLEAN /\ mode_favourites' \in BOOLEAN
  BY <1>1, <1>2 DEF ScreenSound, FavouritesSound
<1>4. /\ favourites' \in Favourites
      /\ \A r \in Slots : favourites'[r] = IF r = t THEN favourites[s]
                                           ELSE IF r = s THEN favourites[t] ELSE favourites[r]
  BY <1>2, <1>3 DEF Favourites
<1>5. OnceEach(favourites')
  BY <1>3, <1>4 DEF OnceEach
<1>6. \A r \in Slots : FavouriteAt(favourites'[r], directories)
  <2>1. \A r \in Slots : FavouriteAt(favourites[r], directories)
    BY <1>1 DEF FavouritesSound, Scanned
  <2> QED
    BY <1>4, <2>1
<1> QED
  BY <1>2, <1>3, <1>4, <1>5, <1>6, FavouritesKept

\* A favourite is removed.
LEMMA RemoveFavouriteKeeps ==
  ASSUME ListsInv, Scanned, NEW id, RemoveFavourite(id)
  PROVE  ListsInv' /\ directories' = directories
<1>1. ScreenSound /\ FavouritesSound
  BY DEF ListsInv
<1>2. /\ favourites' = DeleteFavouritesIfExits(favourites, id)
      /\ havefavourites' = SomeFavourite(favourites')
      /\ mode_favourites' = (mode_favourites /\ havefavourites')
      /\ SaveFavourites /\ Changed
  BY DEF RemoveFavourite
<1>3. favourites \in Favourites /\ OnceEach(favourites)
  BY <1>1 DEF ScreenSound, FavouritesSound
<1>4. /\ favourites' \in Favourites /\ OnceEach(favourites')
      /\ \A s \in Slots : favourites'[s] = favourites[s] \/ favourites'[s] = NoFavourite
  BY <1>2, <1>3, FavouriteDeleted
<1>5. \A s \in Slots : FavouriteAt(favourites'[s], directories)
  <2>1. \A s \in Slots : FavouriteAt(favourites[s], directories)
    BY <1>1 DEF FavouritesSound, Scanned
  <2>2. FavouriteAt(NoFavourite, directories)
    BY DEF FavouriteAt, NoFavourite
  <2> QED
    BY <1>4, <2>1, <2>2
<1>6. havefavourites' \in BOOLEAN /\ mode_favourites' \in BOOLEAN
  BY <1>2 DEF SomeFavourite
<1> QED
  BY <1>2, <1>4, <1>5, <1>6, FavouritesKept

-----------------------------------------------------------------------------
(* The theorems.                                                           *)

\* At first nothing is listed and nothing is a favourite.
LEMMA InitSound ==
  ASSUME ListsInit
  PROVE  ListsInv
<1>1. NoFavourites \in Favourites /\ OnceEach(NoFavourites) /\ \A s \in Slots : FavouriteAt(NoFavourites[s], << >>)
  BY DEF NoFavourites, Favourites, NoFavourite, OnceEach, FavouriteAt
<1>2. Ids(NoFavourites) = [s \in Slots |-> 0] /\ [s \in Slots |-> 0] \in [Slots -> Nat]
  BY DEF Ids, NoFavourites, NoFavourite
<1>3. DevicesSound
  <2>1. Library \in [Devices -> SUBSET GameFile]
    BY GameListsAssumption DEF GameFile
  <2> QED
    BY <2>1 DEF ListsInit, DevicesSound, Devices, Scannable
<1>4. Modes = {0, 2, 3} /\ GAMEBASE_MODE = 0 /\ HOMEBREW_MODE = 2 /\ FILM_MODE = 3
  BY DEF Modes, GAMEBASE_MODE, HOMEBREW_MODE, FILM_MODE
<1>5. /\ mode_homebrew = 0 /\ game_list_category = 0 /\ sort_mode = 0
      /\ mode_favourites = TRUE /\ havefavourites = FALSE /\ cramped = FALSE
      /\ favourites = NoFavourites /\ kept = [m \in Modes |-> NoFavourites]
      /\ saved = [m \in Modes |-> [s \in Slots |-> 0]] /\ unsaved = {}
      /\ fdevices = {} /\ forcedevices = {} /\ directories = << >>
  BY DEF ListsInit, GAMEBASE_MODE
<1>6. ScreenSound
  <2>1. /\ kept \in [Modes -> Favourites]
        /\ saved \in [Modes -> [Slots -> Nat] \cup {Cut}] /\ unsaved \subseteq Modes
    BY <1>1, <1>2, <1>5
  <2>2. mode_homebrew \in Modes /\ favourites \in Favourites
    BY <1>1, <1>4, <1>5
  <2>3. game_list_category \in 0 .. 2 /\ sort_mode \in 0 .. 2
    BY <1>5
  <2>4. mode_favourites \in BOOLEAN /\ havefavourites \in BOOLEAN /\ cramped \in BOOLEAN
    BY <1>5
  <2> QED
    BY <2>1, <2>2, <2>3, <2>4 DEF ScreenSound
<1>7. ListedSound
  <2>1. ListSound(<< >>, {}, mode_homebrew, FALSE) /\ ToSet(<< >>) = {}
    BY EmptyIsSound
  <2>2. Uncut(<< >>, {}, {})
    BY <2>1 DEF Uncut, DeviceListed
  <2> QED
    BY <1>5, <2>1, <2>2 DEF ListedSound
<1>8. FavouritesSound
  BY <1>1, <1>2, <1>4, <1>5 DEF FavouritesSound
<1> QED
  BY <1>3, <1>6, <1>7, <1>8 DEF ListsInv

\* Every step keeps the invariant, and the list it makes is sorted.
LEMMA NextKeeps ==
  ASSUME ListsInv, [ListsNext]_listsVars
  PROVE  /\ ListsInv'
         /\ directories' # directories /\ ~NtfsLeft => Ordered(directories', sort_mode', mode_homebrew')
<1>1. CASE UNCHANGED listsVars
  <2>1. /\ UNCHANGED <<cobra, disk, plugged>> /\ UNCHANGED <<fdevices, fdevices_old, forcedevices, old_ntfs_ports>>
        /\ UNCHANGED directories /\ UNCHANGED <<mode_homebrew, game_list_category, sort_mode>>
        /\ UNCHANGED <<mode_favourites, havefavourites, favourites, kept, saved, unsaved>> /\ UNCHANGED cramped
    BY <1>1 DEF listsVars, hardware, scanning, modes, favs
  <2>2. DevicesSound /\ ScreenSound /\ ListedSound /\ FavouritesSound
    BY DEF ListsInv
  <2>3. DevicesSound'
    BY <2>1, <2>2 DEF DevicesSound
  <2>4. ScreenSound'
    BY <2>1, <2>2 DEF ScreenSound
  <2>5. ListedSound'
    <3>1. ListSound(directories, fdevices, mode_homebrew, cramped)'
      BY <2>1, <2>2 DEF ListedSound, ListSound
    <3>2. /\ Uncut(directories', fdevices', forcedevices') => Uncut(directories, fdevices, forcedevices)'
          /\ VolumesListed(directories') => VolumesListed(directories)'
      BY <2>1, SameUncut
    <3> QED
      BY <2>1, <2>2, <3>1, <3>2 DEF ListedSound
  <2>6. FavouritesSound'
    BY <2>1, <2>2, FavouritesStay
  <2> QED
    BY <2>1, <2>3, <2>4, <2>5, <2>6 DEF ListsInv
<1>2. CASE \E scans \in BOOLEAN : Turn(scans) /\ UNCHANGED acts
  BY <1>2, TurnKeeps
<1>3. CASE Act
  <2>1. CASE \E dev \in Devices : PlugIn(dev) \/ PullOut(dev)
    BY <2>1, PlugInKeeps, PullOutKeeps
  <2>2. CASE \E n \in DOMAIN directories : DeleteGame(n)
    BY <2>2, DeleteGameKeeps
  <2>3. CASE Keys
    <3>1. Scanned
      BY <2>3 DEF Keys
    <3>2. CASE NextSort
      BY <3>1, <3>2, NextSortKeeps
    <3>3. CASE R3
      BY <3>3, R3Keeps
    <3>4. CASE L3
      BY <3>4, L3Keeps
    <3>5. CASE \E s \in Slots, n \in 0 .. Len(directories) - 1 : InsertFavourite(s, n)
      BY <3>1, <3>5, InsertFavouriteKeeps
    <3>6. CASE \E s, t \in Slots : s < t /\ SwapFavourites(s, t)
      BY <3>1, <3>6, SwapFavouritesKeeps
    <3>7. CASE \E s \in Slots : RemoveFavourite(favourites[s].id)
      BY <3>1, <3>7, RemoveFavouriteKeeps
    <3> QED
      BY <2>3, <3>2, <3>3, <3>4, <3>5, <3>6, <3>7 DEF Keys
  <2> QED
    BY <1>3, <2>1, <2>2, <2>3 DEF Act
<1> QED
  BY <1>1, <1>2, <1>3 DEF ListsNext

\* The invariant, of every behaviour.
THEOREM ListsStaySound == ListsSpec => []ListsInv
<1>1. ListsInit => ListsInv
  BY InitSound
<1>2. ListsInv /\ [ListsNext]_listsVars => ListsInv'
  BY NextKeeps
<1> QED
  BY <1>1, <1>2, PTL DEF ListsSpec

\* A list is of the type it has to be.
LEMMA ListsAreTyped ==
  ASSUME ListsInv
  PROVE  ListsTypeOK
<1>1. DevicesSound /\ ScreenSound /\ ListedSound
  BY DEF ListsInv
<1>2. directories \in Seq([id : Nat, dev : Devices, kind : Kinds])
  <2>1. directories \in Seq(GameEntry)
    BY <1>1 DEF ListedSound, ListSound
  <2>2. GameEntry \subseteq [id : Nat, dev : Devices, kind : Kinds]
    BY DEF GameEntry
  <2> DEFINE E == [id : Nat, dev : Devices, kind : Kinds]
             n == Len(directories)
  <2> HIDE DEF E
  <2>3. n \in Nat /\ DOMAIN directories = 1 .. n /\ directories = [i \in 1 .. n |-> directories[i]]
    BY <2>1
  <2>4. \A i \in 1 .. n : directories[i] \in E
    BY <2>1, <2>2 DEF E
  <2> HIDE DEF n
  <2>5. directories \in Seq(E)
    BY <2>3, <2>4
  <2> QED
    BY <2>5 DEF E
<1>3. Scannable \subseteq Devices \ {"ntfs"}
  BY DEF Scannable, Devices
<1>4. /\ cobra \in BOOLEAN /\ (\A d \in Devices : disk[d] \subseteq Library[d])
      /\ plugged \subseteq Devices /\ "hdd" \in plugged
      /\ fdevices \subseteq Scannable /\ fdevices_old \subseteq Scannable /\ forcedevices \subseteq Scannable
      /\ old_ntfs_ports \in BOOLEAN
  BY <1>1 DEF DevicesSound
<1>5. fdevices \subseteq Devices \ {"ntfs"} /\ fdevices_old \subseteq Devices \ {"ntfs"} /\ forcedevices \subseteq Devices
  BY <1>3, <1>4
<1> QED
  BY <1>1, <1>2, <1>4, <1>5 DEF ListsTypeOK, ScreenSound

\* A list nothing was cut off from, when no device is to be heard of, shows
\* what a list made from nothing would.
LEMMA ListShows ==
  ASSUME ListsInv
  PROVE  ListShowsTheDevices
<1> DEFINE listed == ToSet(directories)
           discs == {e \in listed : IsDisc(e)}
<1>1. SUFFICES ASSUME UpToDate, ~cramped
               PROVE  /\ Expected \subseteq listed
                      /\ \A e \in listed \ Expected : IsDisc(e) \/ (IsNtfs(e) /\ e.kind = "psx")
                      /\ Cardinality(discs) = (IF ExpectDisc THEN 1 ELSE 0)
                      /\ Len(directories) = Cardinality(listed)
  BY DEF ListShowsTheDevices
<1>2. DevicesSound /\ ScreenSound /\ ListedSound
  BY DEF ListsInv
<1>3. /\ forcedevices = {} /\ fdevices # {} /\ fdevices = plugged \ {"ntfs"}
      /\ old_ntfs_ports = (cobra /\ "ntfs" \in plugged)
  BY <1>1 DEF UpToDate
<1>4. /\ directories \in Seq(GameEntry) /\ Distinct(directories)
      /\ \A e, f \in listed : IsDisc(e) /\ IsDisc(f) => e = f
      /\ \A e \in listed : IsDisc(e) => "bdvd" \in fdevices /\ mode_homebrew = GAMEBASE_MODE
      /\ \A e \in listed : IsNtfs(e) => old_ntfs_ports
      /\ Uncut(directories, fdevices, forcedevices)
      /\ old_ntfs_ports => VolumesListed(directories)
  BY <1>1, <1>2, <1>3 DEF ListedSound, ListSound
<1>5. Expected = UNION {ShownOf(d) : d \in (plugged \cap {"hdd", "usb", "ntfs"}) \ (IF cobra THEN {} ELSE {"ntfs"})}
  BY DEF Expected, ShownOf, Made
<1>6. \A e \in listed : e \in GameEntry /\ e.dev \in Devices
  <2>1. listed \subseteq GameEntry
    BY <1>4, InToSet
  <2> QED
    BY <2>1 DEF GameEntry
<1>7. \A d \in Devices : \A e \in ShownOf(d) : e \in GameEntry /\ e.dev = d
  BY <1>2 DEF ShownOf, Made, DevicesSound, GameFile, GameEntry
<1>8. \A d \in {"hdd", "usb"} : \A e \in GameEntry :
        e.dev = d => (e \in listed <=> d \in fdevices /\ e \in ShownOf(d))
  BY <1>3, <1>4 DEF Uncut, DeviceListed
<1>9. Expected \subseteq listed
  <2>1. SUFFICES ASSUME NEW d \in plugged \cap {"hdd", "usb", "ntfs"}, d = "ntfs" => cobra, NEW e \in ShownOf(d)
                 PROVE  e \in listed
    BY <1>5
  <2>2. d \in Devices
    BY DEF Devices
  <2>3. CASE d = "ntfs"
    BY <1>3, <1>4, <2>1, <2>3 DEF VolumesListed
  <2>4. CASE d \in {"hdd", "usb"}
    BY <1>3, <1>7, <1>8, <2>2, <2>4
  <2> QED
    BY <2>3, <2>4
<1>10. ASSUME NEW e \in listed, e \notin Expected
       PROVE  IsDisc(e) \/ (IsNtfs(e) /\ e.kind = "psx")
  <2>1. e.dev \in {"hdd", "usb", "bdvd", "ntfs"}
    BY <1>6 DEF Devices
  <2>2. CASE e.dev \in {"hdd", "usb"}
    BY <1>3, <1>5, <1>6, <1>8, <1>10, <2>2
  <2>3. CASE e.dev = "ntfs"
    <3>1. old_ntfs_ports /\ cobra /\ "ntfs" \in plugged
      BY <1>3, <1>4, <2>3 DEF IsNtfs
    <3>2. e \notin ShownOf("ntfs")
      BY <1>5, <1>10, <3>1
    <3> QED
      BY <1>4, <2>3, <3>1, <3>2 DEF VolumesListed, IsNtfs
  <2>4. CASE e.dev = "bdvd"
    BY <2>4 DEF IsDisc
  <2> QED
    BY <2>1, <2>2, <2>3, <2>4
<1>11. Cardinality(discs) = (IF ExpectDisc THEN 1 ELSE 0)
  <2>1. ExpectDisc <=> "bdvd" \in fdevices /\ mode_homebrew = GAMEBASE_MODE
    BY <1>3 DEF ExpectDisc
  <2>2. CASE ExpectDisc
    <3>1. PICK e \in listed : IsDisc(e)
      BY <1>4, <2>1, <2>2 DEF Uncut
    <3>2. discs = {e}
      BY <1>4, <3>1
    <3> QED
      BY <2>2, <3>2, FS_Singleton
  <2>3. CASE ~ExpectDisc
    <3>1. discs = {}
      BY <1>4, <2>1, <2>3
    <3> QED
      BY <2>3, <3>1, FS_EmptySet
  <2> QED
    BY <2>2, <2>3
<1>12. Len(directories) = Cardinality(listed)
  BY <1>4, LenIsCardinality
<1> QED
  BY <1>9, <1>10, <1>11, <1>12

\* What is past the end of the array.
LEMMA OverrunIsByPsx ==
  ASSUME ListsInv
  PROVE  OverrunOnlyByPsx
<1>1. directories \in Seq(GameEntry) /\ Overrun(directories)
  BY DEF ListsInv, ListedSound, ListSound
<1>2. {directories[n].dev : n \in {k \in DOMAIN directories : IsPsx(directories[k])}} = PsxDevs(directories)
  <2>1. ToSet(directories) = {directories[i] : i \in 1 .. Len(directories)} /\ DOMAIN directories = 1 .. Len(directories)
    BY <1>1, InToSet
  <2> QED
    BY <2>1 DEF PsxDevs
<1> QED
  BY <1>1, <1>2 DEF OverrunOnlyByPsx, Overrun

\* The list holds the games of the devices, each once, and is not written
\* past the end of its array but for a PSX game of each device.
THEOREM ListStaysTrue == ListsSpec => []ListIsTrue
<1>1. ListsInv => ListIsTrue
  BY ListsAreTyped, ListShows, OverrunIsByPsx DEF ListIsTrue
<1> QED
  BY <1>1, ListsStaySound, PTL

\* A favourite is where its index says, none is there twice, and the disk
\* holds those of the games and of the homebrew as they are in memory.
THEOREM FavouritesStayKept == ListsSpec => []FavouritesAreKept
<1>1. ListsInv => FavouritesAreKept
  BY DEF ListsInv, FavouritesSound, FavouriteAt, OnceEach, FavouritesAreKept
<1> QED
  BY <1>1, ListsStaySound, PTL

\* Whatever list replaces another is sorted the way the user asked for, but
\* for the one an NTFS volume has left.
THEOREM ListStaysOrdered == ListsSpec => ListIsOrdered
<1>1. ListsInv /\ [ListsNext]_listsVars =>
        [directories' # directories /\ ~NtfsLeft => Ordered(directories', sort_mode', mode_homebrew')]_listsVars
  BY NextKeeps
<1> QED
  BY <1>1, ListsStaySound, PTL DEF ListsSpec, ListIsOrdered

-----------------------------------------------------------------------------
(***************************************************************************)
(* The FTP server.                                                         *)
(***************************************************************************)

(* With a file in hand one is open.                                        *)
FileInHand(s) == s.pc \in {"connect", "block", "finish"} => s.files > 0

(* A connection of PASV or PORT that no REST followed finds rest at 0.     *)
RestIsFresh(s) ==
  ~s.asked /\ (s.data \in {"pasv", "port"} \/ s.pasv = "listening")
    => s.rest = 0

(* Nothing of a transfer is known outside its loop.                        *)
NoAnswerYet(s) ==
  /\ s.pc \notin {"block", "finish"} => s.reply = "none" /\ ~s.lost
  /\ s.pc = "block" =>
       s.reply = "none" /\ (s.cmd.name \in {"STOR", "APPE"} => ~s.lost)

SInv(s) ==
  /\ s \in Session
  /\ SocketsHeld(s)
  /\ FilesHeld(s)
  /\ StoreAnswerIsTrue(s)
  /\ StartsAtZero(s)
  /\ FileInHand(s)
  /\ RestIsFresh(s)
  /\ NoAnswerYet(s)

(* A thread between two commands or before the first step of one.          *)
IdlePlaces == {"test", "recv", "cmd", "mark", "close"}
SocketSum(s) ==
  One(s.sock # NoSock) + One(s.data # "none") + One(s.pasv # "none")

Idle(s) ==
  /\ s \in Session
  /\ s.pc \in IdlePlaces
  /\ s.socks = SocketSum(s)
  /\ s.files <= s.left
  /\ RestIsFresh(s)
  /\ s.reply = "none"
  /\ s.lost = FALSE

(* What a session must be to be made idle by an answer.                    *)
Settled(s) ==
  /\ s \in Session
  /\ s.socks = SocketSum(s)
  /\ s.files <= s.left
  /\ RestIsFresh(s)

(* A thread with a file or directory in hand.                              *)
Busy(s) ==
  /\ s \in Session
  /\ s.pc \in {"connect", "block", "finish"}
  /\ s.socks = SocketSum(s)
  /\ s.files > 0
  /\ s.files <= s.left + 1
  /\ RestIsFresh(s)
  /\ StoreAnswerIsTrue(s)
  /\ NoAnswerYet(s)

LEMMA Numbers ==
  ASSUME NEW s \in Session
  PROVE  s.socks \in Nat /\ s.files \in Nat /\ s.left \in Nat
BY DEF Session

LEMMA IdleIsSInv ==
  ASSUME NEW s, Idle(s)
  PROVE  SInv(s)
<1>1. s \in Session  BY DEF Idle
<1>2. SocketsHeld(s)
  BY DEF Idle, IdlePlaces, SocketSum, SocketsHeld
<1>a. One(s.pc \in {"connect", "block", "finish"}) = 0
  BY DEF Idle, IdlePlaces, One
<1>b. FilesHeld(s)
  BY <1>1, <1>a, Numbers DEF Idle, FilesHeld
<1>3. /\ StoreAnswerIsTrue(s) /\ StartsAtZero(s) /\ FileInHand(s)
      /\ RestIsFresh(s) /\ NoAnswerYet(s)
  BY DEF Idle, IdlePlaces, StoreAnswerIsTrue, StartsAtZero, FileInHand,
         NoAnswerYet
<1> QED
  BY <1>1, <1>2, <1>b, <1>3 DEF SInv

LEMMA SInvIsIdle ==
  ASSUME NEW s, SInv(s), s.pc \in IdlePlaces
  PROVE  Idle(s)
<1>1. s \in Session /\ RestIsFresh(s)  BY DEF SInv
<1>2. s.socks = SocketSum(s)
  BY DEF SInv, SocketsHeld, SocketSum, IdlePlaces
<1>a. One(s.pc \in {"connect", "block", "finish"}) = 0
  BY DEF IdlePlaces, One
<1>3. s.files <= s.left
  BY <1>1, <1>a, Numbers DEF SInv, FilesHeld
<1>4. s.reply = "none" /\ s.lost = FALSE
  BY <1>1 DEF SInv, NoAnswerYet, IdlePlaces, Session
<1> QED
  BY <1>1, <1>2, <1>3, <1>4 DEF Idle

LEMMA BusyIsSInv ==
  ASSUME NEW s, Busy(s)
  PROVE  SInv(s)
<1>1. s \in Session  BY DEF Busy
<1>2. SocketsHeld(s)
  BY DEF Busy, SocketsHeld, SocketSum
<1>3. FilesHeld(s)
  BY <1>1 DEF Busy, FilesHeld, One, Session
<1>4. StartsAtZero(s)
  BY DEF Busy, RestIsFresh, StartsAtZero
<1>5. /\ StoreAnswerIsTrue(s) /\ FileInHand(s) /\ RestIsFresh(s)
      /\ NoAnswerYet(s)
  BY DEF Busy, FileInHand
<1> QED
  BY <1>1, <1>2, <1>3, <1>4, <1>5 DEF SInv

LEMMA SInvIsBusy ==
  ASSUME NEW s, SInv(s), s.pc \in {"connect", "block", "finish"}
  PROVE  Busy(s)
<1>1. s \in Session  BY DEF SInv
<1>2. s.socks = SocketSum(s)
  BY DEF SInv, SocketsHeld, SocketSum
<1>3. s.files > 0 /\ s.files <= s.left + 1
  BY <1>1 DEF SInv, FilesHeld, FileInHand, One, Session
<1> QED
  BY <1>1, <1>2, <1>3 DEF SInv, Busy

-----------------------------------------------------------------------------
LEMMA PutKeeps ==
  ASSUME NEW t \in Threads, NEW r, SInv(r), Put(t, r),
         ses \in [Threads -> Session], \A u \in Threads : SInv(ses[u])
  PROVE  /\ ses' \in [Threads -> Session]
         /\ \A u \in Threads : SInv(ses'[u])
BY DEF Put, SInv

LEMMA SilentFields ==
  ASSUME NEW s \in Session
  PROVE  LET r == Silent(s) IN
         /\ r \in Session
         /\ r.pc = "test" /\ r.sock = s.sock /\ r.cmd = NoCommand
         /\ r.auth = s.auth /\ r.expect = "" /\ r.line = s.line
         /\ r.data = s.data /\ r.pasv = s.pasv
         /\ r.rest = s.rest /\ r.asked = s.asked /\ r.todo = 0
         /\ r.socks = s.socks /\ r.files = s.files /\ r.left = s.left
         /\ r.lost = FALSE /\ r.reply = "none"
<1> DEFINE r == Silent(s)
<1>0. 0 \in 0..MaxBlocks  BY BoundsAssumption
<1>a. NoCommand \in Command
  BY DEF NoCommand, Command, CommandNames
<1>b. "test" \in Places
  BY DEF Places
<1>1. r \in Session
  BY <1>0, <1>a, <1>b DEF Silent, Session
<1>2. r.pc = "test" /\ r.sock = s.sock /\ r.cmd = NoCommand
  BY DEF Silent, Session
<1>3. r.auth = s.auth /\ r.expect = "" /\ r.line = s.line
  BY DEF Silent, Session
<1>4. r.data = s.data /\ r.pasv = s.pasv
  BY DEF Silent, Session
<1>5. r.rest = s.rest /\ r.asked = s.asked /\ r.todo = 0
  BY DEF Silent, Session
<1>6. r.socks = s.socks /\ r.files = s.files /\ r.left = s.left
  BY DEF Silent, Session
<1>7. r.lost = FALSE /\ r.reply = "none"
  BY DEF Silent, Session
<1> QED
  BY <1>1, <1>2, <1>3, <1>4, <1>5, <1>6, <1>7

LEMMA AnsweredIdle ==
  ASSUME NEW s, Settled(s)
  PROVE  /\ Idle(Silent(s)) /\ Idle(Answered(s))
         /\ Silent(s).pc = "test" /\ Answered(s).pc = "test"
         /\ Answered(s).data = s.data /\ Answered(s).pasv = s.pasv
<1> DEFINE q == Silent(s)
           r == Answered(s)
<1>1. s \in Session  BY DEF Settled
<1>2. /\ q \in Session
      /\ q.pc = "test" /\ q.sock = s.sock /\ q.data = s.data /\ q.pasv = s.pasv
      /\ q.socks = s.socks /\ q.files = s.files /\ q.left = s.left
      /\ q.rest = s.rest /\ q.asked = s.asked /\ q.reply = "none"
      /\ q.lost = FALSE
  BY <1>1, SilentFields
<1> HIDE DEF q
<1>3. Idle(q)
  BY <1>2 DEF Settled, Idle, IdlePlaces, SocketSum, RestIsFresh
<1>4. r = [q EXCEPT !.line = TRUE]  BY DEF q, Answered
<1> HIDE DEF r
<1>5. r \in Session  BY <1>2, <1>4 DEF Session
<1>6. /\ r.pc = q.pc /\ r.sock = q.sock /\ r.data = q.data /\ r.pasv = q.pasv
      /\ r.socks = q.socks /\ r.files = q.files /\ r.left = q.left
      /\ r.rest = q.rest /\ r.asked = q.asked /\ r.reply = q.reply
      /\ r.lost = q.lost
  BY <1>2, <1>4 DEF Session
<1>7. Idle(r)
  BY <1>3, <1>5, <1>6 DEF Idle, SocketSum, RestIsFresh
<1> QED
  BY <1>2, <1>3, <1>6, <1>7 DEF q, r

SameButSockets(r, s) ==
  /\ r.pc = s.pc /\ r.sock = s.sock /\ r.cmd = s.cmd
  /\ r.rest = s.rest /\ r.asked = s.asked
  /\ r.files = s.files /\ r.left = s.left
  /\ r.lost = s.lost /\ r.reply = s.reply

LEMMA CloseDataFields ==
  ASSUME NEW s \in Session, s.socks = SocketSum(s)
  PROVE  LET r == CloseData(s) IN
         /\ r \in Session /\ SameButSockets(r, s)
         /\ r.data = "none" /\ r.pasv = s.pasv /\ r.socks = SocketSum(r)
<1> DEFINE r == CloseData(s)
<1>1. CASE s.data = "none"
  BY <1>1 DEF CloseData, SameButSockets
<1>2. CASE s.data # "none"
  <2>1. s.socks - 1 \in Nat
    BY <1>2, Numbers DEF SocketSum, One
  <2>2. r = [s EXCEPT !.data = "none", !.socks = s.socks - 1]
    BY <1>2 DEF CloseData
  <2> HIDE DEF r
  <2>3. r \in Session  BY <2>1, <2>2 DEF Session
  <2>4. SameButSockets(r, s)  BY <2>2 DEF Session, SameButSockets
  <2>5. r.data = "none" /\ r.pasv = s.pasv /\ r.socks = s.socks - 1
    BY <2>2 DEF Session
  <2>6. r.socks = SocketSum(r)
    BY <1>2, <2>4, <2>5, Numbers DEF SocketSum, One, SameButSockets
  <2> QED
    BY <2>3, <2>4, <2>5, <2>6 DEF r
<1> QED
  BY <1>1, <1>2

LEMMA ClosePasvFields ==
  ASSUME NEW s \in Session, s.socks = SocketSum(s)
  PROVE  LET r == ClosePasv(s) IN
         /\ r \in Session /\ SameButSockets(r, s)
         /\ r.pasv = "none" /\ r.data = s.data /\ r.socks = SocketSum(r)
<1> DEFINE r == ClosePasv(s)
<1>1. CASE s.pasv = "none"
  BY <1>1 DEF ClosePasv, SameButSockets
<1>2. CASE s.pasv # "none"
  <2>1. s.socks - 1 \in Nat
    BY <1>2, Numbers DEF SocketSum, One
  <2>2. r = [s EXCEPT !.pasv = "none", !.socks = s.socks - 1]
    BY <1>2 DEF ClosePasv
  <2> HIDE DEF r
  <2>3. r \in Session  BY <2>1, <2>2 DEF Session
  <2>4. SameButSockets(r, s)  BY <2>2 DEF Session, SameButSockets
  <2>5. r.pasv = "none" /\ r.data = s.data /\ r.socks = s.socks - 1
    BY <2>2 DEF Session
  <2>6. r.socks = SocketSum(r)
    BY <1>2, <2>4, <2>5, Numbers DEF SocketSum, One, SameButSockets
  <2> QED
    BY <2>3, <2>4, <2>5, <2>6 DEF r
<1> QED
  BY <1>1, <1>2

(* Closing sockets keeps a session settled.                                *)
LEMMA CloseSettled ==
  ASSUME NEW s, Settled(s)
  PROVE  /\ Settled(CloseData(s)) /\ SameButSockets(CloseData(s), s)
         /\ CloseData(s).data = "none"
         /\ Settled(ClosePasv(s)) /\ SameButSockets(ClosePasv(s), s)
         /\ ClosePasv(s).pasv = "none" /\ ClosePasv(s).data = s.data
         /\ Settled(CloseBoth(s)) /\ SameButSockets(CloseBoth(s), s)
         /\ CloseBoth(s).data = "none" /\ CloseBoth(s).pasv = "none"
<1>1. \A x : Settled(x) =>
        /\ Settled(CloseData(x)) /\ SameButSockets(CloseData(x), x)
        /\ CloseData(x).data = "none" /\ CloseData(x).pasv = x.pasv
  <2> TAKE x
  <2> HAVE Settled(x)
  <2> DEFINE r == CloseData(x)
  <2>1. /\ r \in Session /\ SameButSockets(r, x)
        /\ r.data = "none" /\ r.pasv = x.pasv /\ r.socks = SocketSum(r)
    BY CloseDataFields DEF Settled
  <2> HIDE DEF r
  <2>2. Settled(r)
    BY <2>1 DEF Settled, SameButSockets, RestIsFresh
  <2> QED
    BY <2>1, <2>2 DEF r
<1>2. \A x : Settled(x) =>
        /\ Settled(ClosePasv(x)) /\ SameButSockets(ClosePasv(x), x)
        /\ ClosePasv(x).pasv = "none" /\ ClosePasv(x).data = x.data
  <2> TAKE x
  <2> HAVE Settled(x)
  <2> DEFINE r == ClosePasv(x)
  <2>1. /\ r \in Session /\ SameButSockets(r, x)
        /\ r.pasv = "none" /\ r.data = x.data /\ r.socks = SocketSum(r)
    BY ClosePasvFields DEF Settled
  <2> HIDE DEF r
  <2>2. Settled(r)
    BY <2>1 DEF Settled, SameButSockets, RestIsFresh
  <2> QED
    BY <2>1, <2>2 DEF r
<1> QED
  BY <1>1, <1>2 DEF CloseBoth, SameButSockets

LEMMA IdleIsSettled ==
  ASSUME NEW s, Idle(s)
  PROVE  Settled(s)
BY DEF Idle, Settled

(* A descriptor the stray close may have hit is one less.                  *)
LEMMA StraySettled ==
  ASSUME NEW s, Settled(s), NEW r \in AfterStrayClose(s)
  PROVE  Settled(r)
<1>1. CASE r = s
  BY <1>1
<1>2. CASE s.files > 0 /\ r = [s EXCEPT !.files = s.files - 1]
  <2>1. s \in Session /\ s.files - 1 \in Nat
    BY <1>2, Numbers DEF Settled
  <2>2. r \in Session
    BY <1>2, <2>1 DEF Session
  <2>3. /\ r.sock = s.sock /\ r.data = s.data /\ r.pasv = s.pasv
        /\ r.socks = s.socks /\ r.files = s.files - 1 /\ r.left = s.left
        /\ r.rest = s.rest /\ r.asked = s.asked
    BY <1>2, <2>1 DEF Session
  <2>4. r.files <= r.left
    BY <2>1, <2>3, Numbers DEF Settled
  <2> QED
    BY <2>2, <2>3, <2>4 DEF Settled, SocketSum, RestIsFresh
<1> QED
  BY <1>1, <1>2 DEF AfterStrayClose

-----------------------------------------------------------------------------
(* What a step of a client thread does to its session and to ftp_working.  *)
BusyStep(s, r) ==
  /\ ftp_working' = 1 =>
       \/ Transferring(r)
       \/ /\ ftp_working = 1
          /\ Transferring(s) => (s.pc = "connect" /\ r.pc = "test")
  /\ Transferring(r) =>
       \/ ftp_working' = 1
       \/ Transferring(s) /\ ftp_working' = ftp_working
  /\ r.pc = "mark" => ftp_working # 1

Step(t) == \E r : Put(t, r) /\ SInv(r) /\ BusyStep(ses[t], r)

LEMMA IdleStep ==
  ASSUME NEW t \in Threads, NEW r, Idle(ses[t]), Idle(r), Put(t, r),
         r.pc = "mark" => ftp_working # 1,
         ftp_working' = ftp_working \/ ftp_working' = 0 \/ ftp_working' = 2
  PROVE  Step(t)
<1>1. SInv(r)  BY IdleIsSInv
<1>2. ~Transferring(ses[t]) /\ ~Transferring(r)
  BY DEF Transferring, Idle, IdlePlaces
<1>3. BusyStep(ses[t], r)
  BY <1>2 DEF BusyStep
<1> QED
  BY <1>1, <1>3 DEF Step

(* Small changes of an idle session.                                       *)
LEMMA MoveIdle ==
  ASSUME NEW s, Idle(s), NEW p \in IdlePlaces
  PROVE  Idle([s EXCEPT !.pc = p]) /\ [s EXCEPT !.pc = p].pc = p
<1> DEFINE r == [s EXCEPT !.pc = p]
<1>1. s \in Session  BY DEF Idle
<1>2. r \in Session  BY <1>1 DEF Session, IdlePlaces, Places
<1>3. /\ r.pc = p /\ r.sock = s.sock /\ r.data = s.data /\ r.pasv = s.pasv
      /\ r.socks = s.socks /\ r.files = s.files /\ r.left = s.left
      /\ r.rest = s.rest /\ r.asked = s.asked
      /\ r.reply = s.reply /\ r.lost = s.lost
  BY <1>1 DEF Session
<1> HIDE DEF r
<1>4. Idle(r)
  BY <1>2, <1>3 DEF Idle, SocketSum, RestIsFresh
<1> QED
  BY <1>3, <1>4 DEF r

LEMMA CommandIdle ==
  ASSUME NEW s, Idle(s), NEW c \in Command
  PROVE  LET r == [s EXCEPT !.pc = "cmd", !.cmd = c, !.line = FALSE]
         IN  Idle(r) /\ r.pc = "cmd"
<1> DEFINE r == [s EXCEPT !.pc = "cmd", !.cmd = c, !.line = FALSE]
<1>1. s \in Session  BY DEF Idle
<1>2. "cmd" \in Places  BY DEF Places
<1>3. r \in Session  BY <1>1, <1>2 DEF Session
<1>4. /\ r.pc = "cmd" /\ r.sock = s.sock /\ r.data = s.data /\ r.pasv = s.pasv
      /\ r.socks = s.socks /\ r.files = s.files /\ r.left = s.left
      /\ r.rest = s.rest /\ r.asked = s.asked
      /\ r.reply = s.reply /\ r.lost = s.lost
  BY <1>1 DEF Session
<1> HIDE DEF r
<1>5. Idle(r)
  BY <1>3, <1>4 DEF Idle, IdlePlaces, SocketSum, RestIsFresh
<1> QED
  BY <1>4, <1>5 DEF r

LEMMA ExpectIdle ==
  ASSUME NEW s, Idle(s), NEW e \in {"", "PASS", "RNTO"}
  PROVE  LET r == [s EXCEPT !.expect = e]
         IN  Idle(r) /\ r.pc = s.pc
<1> DEFINE r == [s EXCEPT !.expect = e]
<1>1. s \in Session  BY DEF Idle
<1>2. r \in Session  BY <1>1 DEF Session
<1>3. /\ r.pc = s.pc /\ r.sock = s.sock /\ r.data = s.data /\ r.pasv = s.pasv
      /\ r.socks = s.socks /\ r.files = s.files /\ r.left = s.left
      /\ r.rest = s.rest /\ r.asked = s.asked
      /\ r.reply = s.reply /\ r.lost = s.lost
  BY <1>1 DEF Session
<1> HIDE DEF r
<1>4. Idle(r)
  BY <1>2, <1>3 DEF Idle, SocketSum, RestIsFresh
<1> QED
  BY <1>3, <1>4 DEF r

LEMMA AuthIdle ==
  ASSUME NEW s, Idle(s)
  PROVE  LET r == [s EXCEPT !.auth = TRUE]
         IN  Idle(r) /\ r.pc = s.pc
<1> DEFINE r == [s EXCEPT !.auth = TRUE]
<1>1. s \in Session  BY DEF Idle
<1>2. r \in Session  BY <1>1 DEF Session
<1>3. /\ r.pc = s.pc /\ r.sock = s.sock /\ r.data = s.data /\ r.pasv = s.pasv
      /\ r.socks = s.socks /\ r.files = s.files /\ r.left = s.left
      /\ r.rest = s.rest /\ r.asked = s.asked
      /\ r.reply = s.reply /\ r.lost = s.lost
  BY <1>1 DEF Session
<1> HIDE DEF r
<1>4. Idle(r)
  BY <1>2, <1>3 DEF Idle, SocketSum, RestIsFresh
<1> QED
  BY <1>3, <1>4 DEF r

LEMMA RestIdle ==
  ASSUME NEW s, Idle(s), NEW k \in {0, 1}
  PROVE  LET r == [s EXCEPT !.rest = k, !.asked = TRUE]
             z == [s EXCEPT !.rest = 0]
         IN  /\ Idle(r) /\ r.pc = s.pc
             /\ Idle(z) /\ z.pc = s.pc
<1> DEFINE r == [s EXCEPT !.rest = k, !.asked = TRUE]
           z == [s EXCEPT !.rest = 0]
<1>1. s \in Session  BY DEF Idle
<1>2. r \in Session /\ z \in Session  BY <1>1 DEF Session
<1>3. /\ r.pc = s.pc /\ r.sock = s.sock /\ r.data = s.data /\ r.pasv = s.pasv
      /\ r.socks = s.socks /\ r.files = s.files /\ r.left = s.left
      /\ r.asked = TRUE
      /\ r.reply = s.reply /\ r.lost = s.lost
  BY <1>1 DEF Session
<1>4. /\ z.pc = s.pc /\ z.sock = s.sock /\ z.data = s.data /\ z.pasv = s.pasv
      /\ z.socks = s.socks /\ z.files = s.files /\ z.left = s.left
      /\ z.rest = 0
      /\ z.reply = s.reply /\ z.lost = s.lost
  BY <1>1 DEF Session
<1> HIDE DEF r, z
<1>5. Idle(r) /\ Idle(z)
  BY <1>2, <1>3, <1>4 DEF Idle, SocketSum, RestIsFresh
<1> QED
  BY <1>3, <1>4, <1>5 DEF r, z

(* A socket that PASV or PORT opened.                                      *)
LEMMA PasvIdle ==
  ASSUME NEW s, Idle(s), s.data = "none", s.pasv = "none"
  PROVE  LET r == [s EXCEPT !.pasv = "listening", !.socks = @ + 1,
                            !.rest = 0, !.asked = FALSE]
         IN  Idle(r) /\ r.pc = s.pc
<1> DEFINE k == s.socks + 1
           r == [s EXCEPT !.pasv = "listening", !.socks = k,
                          !.rest = 0, !.asked = FALSE]
<1>1. s \in Session /\ s.socks \in Nat  BY Numbers DEF Idle
<1>a. k \in Nat  BY <1>1
<1> HIDE DEF k
<1>2. r \in Session  BY <1>1, <1>a DEF Session
<1>3. /\ r.pc = s.pc /\ r.sock = s.sock /\ r.data = s.data
      /\ r.pasv = "listening" /\ r.socks = k
      /\ r.files = s.files /\ r.left = s.left
      /\ r.rest = 0 /\ r.asked = FALSE
      /\ r.reply = s.reply /\ r.lost = s.lost
  BY <1>1 DEF Session
<1> HIDE DEF r
<1>4. r.socks = SocketSum(r)
  BY <1>1, <1>3 DEF Idle, SocketSum, One, k
<1>5. Idle(r)
  BY <1>2, <1>3, <1>4 DEF Idle, RestIsFresh
<1> QED
  BY <1>3, <1>5 DEF r, k

LEMMA PortIdle ==
  ASSUME NEW s, Idle(s), s.data = "none", s.pasv = "none"
  PROVE  LET r == [s EXCEPT !.data = "port", !.socks = @ + 1,
                            !.rest = 0, !.asked = FALSE]
         IN  Idle(r) /\ r.pc = s.pc
<1> DEFINE k == s.socks + 1
           r == [s EXCEPT !.data = "port", !.socks = k,
                          !.rest = 0, !.asked = FALSE]
<1>1. s \in Session /\ s.socks \in Nat  BY Numbers DEF Idle
<1>a. k \in Nat  BY <1>1
<1> HIDE DEF k
<1>2. r \in Session  BY <1>1, <1>a DEF Session
<1>3. /\ r.pc = s.pc /\ r.sock = s.sock /\ r.pasv = s.pasv
      /\ r.data = "port" /\ r.socks = k
      /\ r.files = s.files /\ r.left = s.left
      /\ r.rest = 0 /\ r.asked = FALSE
      /\ r.reply = s.reply /\ r.lost = s.lost
  BY <1>1 DEF Session
<1> HIDE DEF r
<1>4. r.socks = SocketSum(r)
  BY <1>1, <1>3 DEF Idle, SocketSum, One, k
<1>5. Idle(r)
  BY <1>2, <1>3, <1>4 DEF Idle, RestIsFresh
<1> QED
  BY <1>3, <1>5 DEF r, k

-----------------------------------------------------------------------------
(* The actions of a client thread, in groups.                              *)

LEMMA LoopSteps ==
  ASSUME NEW t \in Threads, SInv(ses[t]),
         \/ TestState(t) \/ RecvCommand(t) \/ RecvEnd(t) \/ RecvError(t)
  PROVE  Step(t)
<1> DEFINE s == ses[t]
<1>1. Idle(s) /\ ftp_working' = ftp_working
  BY SInvIsIdle DEF TestState, RecvCommand, RecvEnd, RecvError, At, IdlePlaces,
                    OnlySes
<1>2. ASSUME NEW p \in {"recv", "close"}, Put(t, [s EXCEPT !.pc = p])
      PROVE  Step(t)
  BY <1>1, <1>2, MoveIdle, IdleStep DEF IdlePlaces
<1>3. ASSUME NEW c \in Command,
             Put(t, [s EXCEPT !.pc = "cmd", !.cmd = c, !.line = FALSE])
      PROVE  Step(t)
  BY <1>1, <1>3, CommandIdle, IdleStep
<1>4. CASE TestState(t)
  BY <1>2, <1>4 DEF TestState
<1>5. CASE RecvCommand(t)
  BY <1>2, <1>3, <1>5, VocabularyAssumption DEF RecvCommand
<1>6. CASE RecvEnd(t)
  BY <1>2, <1>6 DEF RecvEnd
<1>7. CASE RecvError(t)
  <2>1. [name |-> "OTHER", param |-> TRUE] \in Command
    BY DEF Command, CommandNames
  <2>2. CASE s.line
    <3> DEFINE c == [name |-> "OTHER", param |-> TRUE]
    <3>1. Put(t, [s EXCEPT !.pc = "cmd", !.line = FALSE, !.cmd = c])
      BY <1>7, <2>2 DEF RecvError
    <3>2. [s EXCEPT !.pc = "cmd", !.line = FALSE, !.cmd = c]
            = [s EXCEPT !.pc = "cmd", !.cmd = c, !.line = FALSE]
      BY <1>1 DEF Idle, Session
    <3> QED
      BY <1>3, <2>1, <3>1, <3>2
  <2>3. CASE ~s.line
    BY <1>2, <1>7, <2>3 DEF RecvError
  <2> QED
    BY <2>2, <2>3
<1> QED
  BY <1>4, <1>5, <1>6, <1>7

LEMMA CommandSteps ==
  ASSUME NEW t \in Threads, SInv(ses[t]),
         \/ BadSequence(t) \/ Empty(t) \/ NoopOrQuit(t) \/ JustAnswer(t)
         \/ LogIn(t) \/ Echo(t) \/ Change(t) \/ Mark(t) \/ RenameFrom(t)
         \/ Restart(t) \/ ExitApp(t) \/ ListHere(t)
  PROVE  Step(t)
<1> DEFINE s == ses[t]
<1>1. Idle(s)
  BY SInvIsIdle DEF BadSequence, Empty, NoopOrQuit, JustAnswer, LogIn, Echo,
       Change, Mark, RenameFrom, Restart, ExitApp, ListHere, Runs, RunsIn, At,
       IdlePlaces
<1>2. /\ Idle(Answered(s)) /\ Answered(s).pc = "test"
      /\ Idle(Silent(s)) /\ Silent(s).pc = "test"
  BY <1>1, IdleIsSettled, AnsweredIdle
<1>3. ASSUME Put(t, Answered(s)) \/ Put(t, Silent(s)),
             ftp_working' = ftp_working \/ ftp_working' = 0 \/ ftp_working' = 2
      PROVE  Step(t)
  BY <1>1, <1>2, <1>3, IdleStep
<1>4. ASSUME NEW e \in {"", "PASS", "RNTO"},
             Put(t, [Answered(s) EXCEPT !.expect = e]), ftp_working' = ftp_working
      PROVE  Step(t)
  BY <1>1, <1>2, <1>4, ExpectIdle, IdleStep
<1>5. CASE BadSequence(t) \/ Empty(t) \/ JustAnswer(t) \/ Echo(t) \/ ExitApp(t)
  BY <1>3, <1>5 DEF BadSequence, Empty, JustAnswer, Echo, ExitApp, OnlySes
<1>6. CASE NoopOrQuit(t)
  <2>1. ftp_working' = 0  BY <1>6 DEF NoopOrQuit
  <2>2. CASE s.cmd.name = "NOOP"
    BY <1>3, <1>6, <2>1, <2>2 DEF NoopOrQuit
  <2>3. CASE s.cmd.name # "NOOP"
    <3> DEFINE r == [Answered(s) EXCEPT !.pc = "close"]
    <3>1. Idle(r) /\ r.pc = "close"
      BY <1>2, MoveIdle DEF IdlePlaces
    <3>2. Put(t, r)  BY <1>6, <2>3 DEF NoopOrQuit
    <3> QED
      BY <1>1, <2>1, <3>1, <3>2, IdleStep
  <2> QED
    BY <2>2, <2>3
<1>7. CASE LogIn(t)
  <2>1. ftp_working' = ftp_working  BY <1>7 DEF LogIn, OnlySes
  <2>2. CASE s.cmd.name = "USER"
    BY <1>4, <1>7, <2>1, <2>2 DEF LogIn
  <2>3. CASE s.cmd.name # "USER"
    <3>1. Put(t, [Answered(s) EXCEPT !.auth = TRUE])
      BY <1>7, <2>3 DEF LogIn
    <3> QED
      BY <1>1, <1>2, <2>1, <3>1, AuthIdle, IdleStep
  <2> QED
    BY <2>2, <2>3
<1>8. CASE Change(t)
  <2>1. ftp_working' = ftp_working  BY <1>8 DEF Change, OnlySes
  <2>2. CASE ftp_working = 1
    BY <1>3, <1>8, <2>1, <2>2 DEF Change
  <2>3. CASE ftp_working # 1
    <3> DEFINE q == [s EXCEPT !.pc = "mark"]
               r == [s EXCEPT !.pc = "mark", !.expect = ""]
    <3>1. Idle(q)
      BY <1>1, MoveIdle DEF IdlePlaces
    <3>2. r = [q EXCEPT !.expect = ""]
      BY <1>1 DEF Idle, Session
    <3>3. Put(t, r)  BY <1>8, <2>3 DEF Change
    <3> HIDE DEF q, r
    <3>4. Idle(r)
      BY <3>1, <3>2, ExpectIdle
    <3> QED
      BY <1>1, <2>1, <2>3, <3>3, <3>4, IdleStep
  <2> QED
    BY <2>2, <2>3
<1>9. CASE Mark(t)
  BY <1>3, <1>9 DEF Mark
<1>10. CASE RenameFrom(t)
  BY <1>3, <1>4, <1>10 DEF RenameFrom, OnlySes
<1>11. CASE Restart(t)
  <2>1. ftp_working' = ftp_working  BY <1>11 DEF Restart, OnlySes
  <2>2. CASE Put(t, [Answered(s) EXCEPT !.rest = 0])
    BY <1>1, <1>2, <2>1, <2>2, RestIdle, IdleStep
  <2>3. ASSUME NEW k \in {0, 1},
               Put(t, [Answered(s) EXCEPT !.rest = k, !.asked = TRUE])
        PROVE  Step(t)
    BY <1>1, <1>2, <2>1, <2>3, RestIdle, IdleStep
  <2> QED
    BY <1>11, <2>2, <2>3 DEF Restart
<1>12. CASE ListHere(t)
  <2>1. ftp_working' = ftp_working  BY <1>12 DEF ListHere, OnlySes
  <2>2. ASSUME NEW x \in AfterStrayClose(s), Put(t, Answered(x))
        PROVE  Step(t)
    BY <1>1, <2>1, <2>2, IdleIsSettled, StraySettled, AnsweredIdle, IdleStep
  <2> QED
    BY <1>3, <1>12, <2>1, <2>2 DEF ListHere
<1> QED
  BY <1>5, <1>6, <1>7, <1>8, <1>9, <1>10, <1>11, <1>12

(* The step that has a file or directory in hand, or gets one.             *)
LEMMA BusyStepHolds ==
  ASSUME NEW t \in Threads, NEW r, Busy(r), Put(t, r),
         \/ ftp_working' = 1 /\ r.cmd.name # "LIST"
         \/ /\ ftp_working' = ftp_working
            /\ Transferring(ses[t]) <=> Transferring(r)
  PROVE  Step(t)
<1>1. SInv(r)  BY BusyIsSInv
<1>2. r.pc # "mark" /\ (r.cmd.name # "LIST" => Transferring(r))
  BY DEF Transferring, Busy
<1>3. BusyStep(ses[t], r)
  BY <1>2 DEF BusyStep
<1> QED
  BY <1>1, <1>3 DEF Step

LEMMA OpenBusy ==
  ASSUME NEW s, Idle(s)
  PROVE  LET r == [s EXCEPT !.pc = "connect", !.expect = "", !.files = @ + 1]
         IN  Busy(r) /\ r.cmd = s.cmd
<1> DEFINE k == s.files + 1
           r == [s EXCEPT !.pc = "connect", !.expect = "", !.files = k]
<1>1. s \in Session /\ s.files \in Nat /\ s.left \in Nat  BY Numbers DEF Idle
<1>2. k \in Nat /\ k > 0 /\ k <= s.left + 1  BY <1>1 DEF Idle
<1> HIDE DEF k
<1>3. "connect" \in Places  BY DEF Places
<1>4. r \in Session  BY <1>1, <1>2, <1>3 DEF Session
<1>5. /\ r.pc = "connect" /\ r.sock = s.sock /\ r.pasv = s.pasv
      /\ r.data = s.data /\ r.socks = s.socks
      /\ r.files = k /\ r.left = s.left /\ r.cmd = s.cmd
      /\ r.rest = s.rest /\ r.asked = s.asked
      /\ r.reply = s.reply /\ r.lost = s.lost
  BY <1>1 DEF Session
<1> HIDE DEF r
<1>6. Busy(r)
  BY <1>2, <1>4, <1>5 DEF Idle, Busy, SocketSum, RestIsFresh, NoAnswerYet,
                          StoreAnswerIsTrue
<1> QED
  BY <1>5, <1>6 DEF r, k

LEMMA DataCommandSteps ==
  ASSUME NEW t \in Threads, SInv(ses[t]),
         Pasv(t) \/ Port(t) \/ Abort(t) \/ OpenList(t) \/ OpenFile(t)
  PROVE  Step(t)
<1> DEFINE s == ses[t]
<1>1. Idle(s)
  BY SInvIsIdle DEF Pasv, Port, Abort, OpenList, OpenFile, Runs, RunsIn, At,
                    IdlePlaces
<1>2. Settled(s)  BY <1>1, IdleIsSettled
<1> DEFINE b == Answered(CloseBoth(s))
<1>3. /\ Idle(b) /\ b.pc = "test"
      /\ b.data = "none" /\ b.pasv = "none"
  BY <1>2, CloseSettled, AnsweredIdle DEF SameButSockets
<1>4. ASSUME NEW x \in AfterStrayClose(s) \cup {s},
             Put(t, Answered(CloseData(x))),
             ftp_working' = ftp_working \/ ftp_working' = 2
      PROVE  Step(t)
  <2>1. Settled(x)
    BY <1>2, StraySettled
  <2>2. Settled(CloseData(x))
    BY <2>1, CloseSettled DEF SameButSockets
  <2> QED
    BY <1>1, <1>4, <2>2, AnsweredIdle, IdleStep
<1>5. CASE Abort(t)
  BY <1>1, <1>3, <1>5, IdleStep DEF Abort, OnlySes
<1>6. CASE Pasv(t)
  <2>1. ftp_working' = ftp_working  BY <1>6 DEF Pasv, OnlySes
  <2>2. CASE Put(t, b)
    BY <1>1, <1>3, <2>1, <2>2, IdleStep
  <2>3. CASE Put(t, [b EXCEPT !.pasv = "listening", !.socks = @ + 1,
                              !.rest = 0, !.asked = FALSE])
    BY <1>1, <1>3, <2>1, <2>3, PasvIdle, IdleStep
  <2> QED
    BY <1>6, <2>2, <2>3 DEF Pasv
<1>7. CASE Port(t)
  <2>1. ftp_working' = ftp_working  BY <1>7 DEF Port, OnlySes
  <2>2. CASE Put(t, b)
    BY <1>1, <1>3, <2>1, <2>2, IdleStep
  <2>3. CASE Put(t, [b EXCEPT !.data = "port", !.socks = @ + 1,
                              !.rest = 0, !.asked = FALSE])
    BY <1>1, <1>3, <2>1, <2>3, PortIdle, IdleStep
  <2> QED
    BY <1>7, <2>2, <2>3 DEF Port
<1> DEFINE o == [s EXCEPT !.pc = "connect", !.expect = "", !.files = @ + 1]
<1>8. Busy(o) /\ o.cmd = s.cmd
  BY <1>1, OpenBusy
<1>9. ~Transferring(s)
  BY <1>1 DEF Transferring, Idle, IdlePlaces
<1>10. CASE OpenList(t)
  <2>1. ftp_working' = ftp_working  BY <1>10 DEF OpenList, OnlySes
  <2>2. CASE Put(t, o)
    <3>1. s.cmd.name = "LIST"  BY <1>10 DEF OpenList, RunsIn, Runs
    <3>2. ~Transferring(o)  BY <1>8, <3>1 DEF Transferring
    <3> QED
      BY <1>8, <1>9, <2>1, <2>2, <3>2, BusyStepHolds
  <2> QED
    BY <1>4, <1>10, <2>1, <2>2 DEF OpenList
<1>11. CASE OpenFile(t)
  <2>1. s.cmd.name # "LIST"
    BY <1>11 DEF OpenFile, RunsIn, Runs
  <2>2. CASE ftp_working' = 1 /\ Put(t, o)
    BY <1>8, <2>1, <2>2, BusyStepHolds
  <2> QED
    BY <1>4, <1>11, <2>2 DEF OpenFile
<1> QED
  BY <1>5, <1>6, <1>7, <1>10, <1>11
(* The actions with a file or directory in hand.                           *)
LEMMA BeginBusy ==
  ASSUME NEW s, Busy(s), s.pc = "connect", NEW m \in 0..MaxBlocks
  PROVE  LET r == Begin(s, m)
         IN  Busy(r) /\ r.cmd = s.cmd
<1> DEFINE r == Begin(s, m)
<1>1. s \in Session /\ s.reply = "none" /\ ~s.lost
  BY DEF Busy, NoAnswerYet
<1>2. "block" \in Places  BY DEF Places
<1>3. r \in Session  BY <1>1, <1>2 DEF Begin, Session
<1>4. /\ r.pc = "block" /\ r.sock = s.sock /\ r.pasv = s.pasv
      /\ r.data = s.data /\ r.socks = s.socks
      /\ r.files = s.files /\ r.left = s.left /\ r.cmd = s.cmd
      /\ r.rest = s.rest /\ r.asked = s.asked
      /\ r.reply = s.reply /\ r.lost = s.lost
  BY <1>1 DEF Begin, Session
<1> HIDE DEF r
<1>5. Busy(r)
  BY <1>1, <1>3, <1>4 DEF Busy, SocketSum, RestIsFresh, NoAnswerYet,
                          StoreAnswerIsTrue
<1> QED
  BY <1>4, <1>5 DEF r

(* The socket that accept or connect gave.                                 *)
LEMMA DataBusy ==
  ASSUME NEW s, Busy(s), s.pc = "connect", s.data = "none",
         NEW d \in {"pasv", "legacy"},
         d = "pasv" /\ ~s.asked => s.rest = 0
  PROVE  LET r == [s EXCEPT !.data = d, !.socks = @ + 1]
         IN  Busy(r) /\ r.pc = "connect" /\ r.cmd = s.cmd
<1> DEFINE k == s.socks + 1
           r == [s EXCEPT !.data = d, !.socks = k]
<1>1. s \in Session /\ s.socks \in Nat  BY Numbers DEF Busy
<1>a. k \in Nat  BY <1>1
<1> HIDE DEF k
<1>2. r \in Session  BY <1>1, <1>a DEF Session
<1>3. /\ r.pc = s.pc /\ r.sock = s.sock /\ r.pasv = s.pasv
      /\ r.data = d /\ r.socks = k
      /\ r.files = s.files /\ r.left = s.left /\ r.cmd = s.cmd
      /\ r.rest = s.rest /\ r.asked = s.asked
      /\ r.reply = s.reply /\ r.lost = s.lost
  BY <1>1 DEF Session
<1> HIDE DEF r
<1>4. r.socks = SocketSum(r)
  BY <1>1, <1>3 DEF Busy, SocketSum, One, k
<1>5. RestIsFresh(r)
  BY <1>3 DEF Busy, RestIsFresh
<1>6. Busy(r)
  BY <1>2, <1>3, <1>4, <1>5 DEF Busy, NoAnswerYet, StoreAnswerIsTrue
<1> QED
  BY <1>3, <1>6 DEF r, k

(* 425 leaves an idle session at the head of the loop.                     *)
LEMMA RefusedIdle ==
  ASSUME NEW s, Busy(s)
  PROVE  Idle(NoDataConnection(s)) /\ NoDataConnection(s).pc = "test"
<1> DEFINE k == s.left + 1
           x == [s EXCEPT !.left = k]
<1>1. s \in Session /\ s.left \in Nat /\ s.files \in Nat
  BY Numbers DEF Busy
<1>2. k \in Nat /\ s.files <= k  BY <1>1 DEF Busy
<1>3. NoDataConnection(s) = Answered(x)  BY DEF NoDataConnection
<1> HIDE DEF k
<1>4. x \in Session  BY <1>1, <1>2 DEF Session
<1>5. /\ x.sock = s.sock /\ x.pasv = s.pasv /\ x.data = s.data
      /\ x.socks = s.socks /\ x.files = s.files /\ x.left = k
      /\ x.rest = s.rest /\ x.asked = s.asked
  BY <1>1 DEF Session
<1> HIDE DEF x
<1>6. Settled(x)
  BY <1>2, <1>4, <1>5 DEF Busy, Settled, SocketSum, RestIsFresh
<1> QED
  BY <1>3, <1>6, AnsweredIdle

LEMMA RefusedStep ==
  ASSUME NEW t \in Threads, NEW r, Put(t, r), Idle(r), r.pc = "test",
         ftp_working' = ftp_working,
         ses[t].pc = "connect" \/ ~Transferring(ses[t])
  PROVE  Step(t)
<1>1. SInv(r)  BY IdleIsSInv
<1>2. ~Transferring(r)  BY DEF Transferring
<1>3. BusyStep(ses[t], r)  BY <1>2 DEF BusyStep
<1> QED
  BY <1>1, <1>3 DEF Step

LEMMA ConnectSteps ==
  ASSUME NEW t \in Threads, SInv(ses[t]),
         UsePort(t) \/ AcceptData(t) \/ ConnectLegacy(t)
  PROVE  Step(t)
<1> DEFINE s == ses[t]
<1>1. s.pc = "connect" /\ ftp_working' = ftp_working
  BY DEF UsePort, AcceptData, ConnectLegacy, At, OnlySes
<1>2. Busy(s)  BY <1>1, SInvIsBusy
<1>3. ASSUME NEW q, Busy(q), q.pc = "connect",
             q.cmd = s.cmd,
             NEW m \in 0..MaxBlocks, Put(t, Begin(q, m))
      PROVE  Step(t)
  <2> DEFINE r == Begin(q, m)
  <2>1. Busy(r) /\ r.cmd = s.cmd
    BY <1>3, BeginBusy
  <2>2. Transferring(s) <=> Transferring(r)
    BY <1>1, <2>1 DEF Transferring, Busy
  <2> QED
    BY <1>1, <1>3, <2>1, <2>2, BusyStepHolds
<1>4. CASE UsePort(t)
  BY <1>1, <1>2, <1>3, <1>4 DEF UsePort
<1> DEFINE p == ClosePasv(s)
<1>5. CASE AcceptData(t)
  <2>1. s.data = "none"  BY <1>5 DEF AcceptData
  <2>2. /\ p \in Session /\ SameButSockets(p, s) /\ p.pasv = "none"
        /\ p.data = "none" /\ p.socks = SocketSum(p)
    BY <1>2, <2>1, ClosePasvFields DEF Busy
  <2> HIDE DEF p
  <2>3. Busy(p) /\ p.pc = "connect"
    BY <1>1, <1>2, <2>2 DEF Busy, SameButSockets, RestIsFresh, NoAnswerYet,
                            StoreAnswerIsTrue
  <2>4. CASE Put(t, NoDataConnection(p))
    BY <1>1, <2>3, <2>4, RefusedIdle, RefusedStep
  <2>5. ASSUME s.pasv = "listening", NEW m \in 0..MaxBlocks,
               Put(t, Begin([p EXCEPT !.data = "pasv", !.socks = @ + 1], m))
        PROVE  Step(t)
    <3>1. ~p.asked => p.rest = 0
      BY <1>2, <2>2, <2>5 DEF Busy, RestIsFresh, SameButSockets
    <3> DEFINE q == [p EXCEPT !.data = "pasv", !.socks = @ + 1]
    <3>2. Busy(q) /\ q.pc = "connect" /\ q.cmd = s.cmd
      BY <2>2, <2>3, <3>1, DataBusy DEF SameButSockets
    <3> QED
      BY <1>3, <2>5, <3>2
  <2> QED
    BY <1>5, <2>4, <2>5 DEF AcceptData, p
<1>6. CASE ConnectLegacy(t)
  <2>1. s.data = "none"  BY <1>6 DEF ConnectLegacy
  <2>2. CASE Put(t, NoDataConnection(s))
    BY <1>1, <1>2, <2>2, RefusedIdle, RefusedStep
  <2>3. ASSUME NEW m \in 0..MaxBlocks,
               Put(t, Begin([s EXCEPT !.data = "legacy", !.socks = @ + 1], m))
        PROVE  Step(t)
    <3> DEFINE q == [s EXCEPT !.data = "legacy", !.socks = @ + 1]
    <3>1. Busy(q) /\ q.pc = "connect" /\ q.cmd = s.cmd
      BY <1>1, <1>2, <2>1, DataBusy
    <3> QED
      BY <1>3, <2>3, <3>1
  <2> QED
    BY <1>6, <2>2, <2>3 DEF ConnectLegacy
<1> QED
  BY <1>4, <1>5, <1>6
(* One turn of the loop of a transfer, with data lost or not.              *)
LEMMA TurnBusy ==
  ASSUME NEW s, Busy(s), s.pc = "block", s.todo > 0, NEW l \in BOOLEAN,
         s.cmd.name \in {"STOR", "APPE"} => ~l
  PROVE  LET r == OneBlock([s EXCEPT !.lost = l])
         IN  Busy(r) /\ r.cmd = s.cmd
<1> DEFINE k == s.todo - 1
           r == [s EXCEPT !.lost = l, !.todo = k]
<1>1. s \in Session /\ s.reply = "none"  BY DEF Busy, NoAnswerYet
<1>a. s.todo \in 0..MaxBlocks  BY <1>1 DEF Session
<1>2. k \in 0..MaxBlocks  BY <1>a, BoundsAssumption
<1>3. OneBlock([s EXCEPT !.lost = l]) = r
  BY <1>1 DEF OneBlock, Session
<1> HIDE DEF k
<1>4. r \in Session  BY <1>1, <1>2 DEF Session
<1>5. /\ r.pc = "block" /\ r.sock = s.sock /\ r.pasv = s.pasv
      /\ r.data = s.data /\ r.socks = s.socks
      /\ r.files = s.files /\ r.left = s.left /\ r.cmd = s.cmd
      /\ r.rest = s.rest /\ r.asked = s.asked
      /\ r.reply = "none" /\ r.lost = l
  BY <1>1 DEF Session
<1> HIDE DEF r
<1>6. Busy(r)
  BY <1>4, <1>5 DEF Busy, SocketSum, RestIsFresh, NoAnswerYet,
                    StoreAnswerIsTrue
<1> QED
  BY <1>3, <1>5, <1>6

LEMMA EndBusy ==
  ASSUME NEW s, Busy(s), s.pc = "block", NEW l \in BOOLEAN,
         NEW a \in {"226", "451"},
         s.cmd.name \in {"STOR", "APPE"} /\ a = "226" => ~l
  PROVE  LET r == LoopEnds([s EXCEPT !.lost = l], a)
         IN  Busy(r) /\ r.cmd = s.cmd
<1> DEFINE r == [s EXCEPT !.lost = l, !.pc = "finish", !.reply = a]
<1>1. s \in Session  BY DEF Busy
<1>2. "finish" \in Places  BY DEF Places
<1>3. LoopEnds([s EXCEPT !.lost = l], a) = r
  BY <1>1 DEF LoopEnds, Session
<1>4. r \in Session  BY <1>1, <1>2 DEF Session
<1>5. /\ r.pc = "finish" /\ r.sock = s.sock /\ r.pasv = s.pasv
      /\ r.data = s.data /\ r.socks = s.socks
      /\ r.files = s.files /\ r.left = s.left /\ r.cmd = s.cmd
      /\ r.rest = s.rest /\ r.asked = s.asked
      /\ r.reply = a /\ r.lost = l
  BY <1>1 DEF Session
<1> HIDE DEF r
<1>6. Busy(r)
  BY <1>4, <1>5 DEF Busy, SocketSum, RestIsFresh, NoAnswerYet,
                    StoreAnswerIsTrue
<1> QED
  BY <1>3, <1>5, <1>6

LEMMA BlockSteps ==
  ASSUME NEW t \in Threads, SInv(ses[t]),
         NoBuffer(t) \/ StoreBlock(t) \/ RetrieveBlock(t) \/ ListBlock(t)
  PROVE  Step(t)
<1> DEFINE s == ses[t]
           stored == s.cmd.name \in {"STOR", "APPE"}
<1>1. s.pc = "block" /\ ftp_working' = ftp_working
  BY DEF NoBuffer, StoreBlock, RetrieveBlock, ListBlock, InLoop, At, OnlySes
<1>2. Busy(s)  BY <1>1, SInvIsBusy
<1>3. s \in Session /\ s.lost \in BOOLEAN /\ (stored => ~s.lost)
  BY <1>1, <1>2 DEF Busy, NoAnswerYet, Session
<1>4. s = [s EXCEPT !.lost = s.lost]
  BY <1>3 DEF Session
<1>5. ASSUME NEW r, Busy(r), r.cmd = s.cmd, Put(t, r)
      PROVE  Step(t)
  <2>1. Transferring(s) <=> Transferring(r)
    BY <1>1, <1>5 DEF Transferring, Busy
  <2> QED
    BY <1>1, <1>5, <2>1, BusyStepHolds
<1>6. ASSUME s.todo > 0, NEW l \in BOOLEAN, stored => ~l,
             Put(t, OneBlock([s EXCEPT !.lost = l]))
      PROVE  Step(t)
  BY <1>1, <1>2, <1>5, <1>6, TurnBusy
<1>7. ASSUME NEW l \in BOOLEAN, NEW a \in {"226", "451"},
             stored /\ a = "226" => ~l,
             Put(t, LoopEnds([s EXCEPT !.lost = l], a))
      PROVE  Step(t)
  BY <1>1, <1>2, <1>5, <1>7, EndBusy
<1>8. ASSUME s.todo > 0, Put(t, OneBlock(s))
      PROVE  Step(t)
  <2>1. Put(t, OneBlock([s EXCEPT !.lost = s.lost]))
    BY <1>4, <1>8
  <2> QED
    BY <1>3, <1>6, <1>8, <2>1
<1>9. ASSUME NEW a \in {"226", "451"}, Put(t, LoopEnds(s, a))
      PROVE  Step(t)
  <2>1. Put(t, LoopEnds([s EXCEPT !.lost = s.lost], a))
    BY <1>4, <1>9
  <2> QED
    BY <1>3, <1>7, <2>1
<1>10. CASE NoBuffer(t)
  BY <1>9, <1>10 DEF NoBuffer
<1>11. CASE StoreBlock(t)
  BY <1>7, <1>8, <1>9, <1>11 DEF StoreBlock
<1>12. CASE RetrieveBlock(t)
  <2>1. ~stored  BY <1>12 DEF RetrieveBlock, InLoop
  <2> QED
    BY <1>6, <1>7, <1>8, <1>9, <1>12, <2>1 DEF RetrieveBlock
<1>13. CASE ListBlock(t)
  BY <1>8, <1>9, <1>13 DEF ListBlock
<1> QED
  BY <1>10, <1>11, <1>12, <1>13

(* The file of a finished transfer is closed.                              *)
LEMMA FinishStep ==
  ASSUME NEW t \in Threads, SInv(ses[t]), Finish(t)
  PROVE  Step(t)
<1> DEFINE s == ses[t]
           k == s.files - 1
           x == [s EXCEPT !.files = k]
           r == Answered(CloseData(x))
<1>1. s.pc = "finish" /\ Put(t, r)
  BY DEF Finish, At
<1>2. Busy(s)  BY <1>1, SInvIsBusy
<1>3. s \in Session /\ s.files \in Nat /\ s.left \in Nat
  BY <1>2, Numbers DEF Busy
<1>4. k \in Nat /\ k <= s.left  BY <1>2, <1>3 DEF Busy
<1> HIDE DEF k
<1>5. x \in Session  BY <1>3, <1>4 DEF Session
<1>6. /\ x.sock = s.sock /\ x.pasv = s.pasv /\ x.data = s.data
      /\ x.socks = s.socks /\ x.files = k /\ x.left = s.left
      /\ x.rest = s.rest /\ x.asked = s.asked
  BY <1>3 DEF Session
<1> HIDE DEF x
<1>7. Settled(x)
  BY <1>2, <1>4, <1>5, <1>6 DEF Busy, Settled, SocketSum, RestIsFresh
<1>8. Settled(CloseData(x))
  BY <1>6, <1>7, CloseSettled
<1>9. Idle(r) /\ r.pc = "test"
  BY <1>8, AnsweredIdle
<1> HIDE DEF r
<1>10. BusyStep(s, r)
  BY <1>9 DEF BusyStep, Finish, Transferring
<1> QED
  BY <1>1, <1>9, <1>10, IdleIsSInv DEF Step
(* A thread before its first step, or after its last.                      *)
LEMMA FreshFields ==
  ASSUME NEW p \in {"off", "start", "test", "exited"}
  PROVE  /\ Fresh(p) \in Session
         /\ SInv(Fresh(p))
<1> DEFINE r == Fresh(p)
<1>1. p \in Places /\ NoCommand \in Command /\ 0 \in 0..MaxBlocks
  BY BoundsAssumption DEF Places, NoCommand, Command, CommandNames
<1>2. r \in Session
  BY <1>1 DEF Fresh, Session
<1>3. /\ r.pc = p /\ r.sock = NoSock /\ r.socks = 0 /\ r.files = 0
      /\ r.left = 0
      /\ r.cmd = NoCommand /\ r.data = "none"
      /\ r.pasv = "none" /\ r.rest = 0 /\ r.lost = FALSE /\ r.reply = "none"
  BY DEF Fresh
<1> HIDE DEF r
<1>4. FilesHeld(r) /\ SocketsHeld(r)
  BY <1>3 DEF FilesHeld, SocketsHeld, One
<1>5. SInv(r)
  BY <1>2, <1>3, <1>4 DEF SInv, StoreAnswerIsTrue, StartsAtZero,
       FileInHand, RestIsFresh, NoAnswerYet
<1> QED
  BY <1>2, <1>5 DEF r

(* The end of a thread holds no socket; its files stay as they are.        *)
LEMMA CloseStep ==
  ASSUME NEW t \in Threads, SInv(ses[t]), Close(t)
  PROVE  Step(t)
<1> DEFINE s == ses[t]
           q == CloseBoth(s)
           held == IF q.sock = NoSock THEN q.socks ELSE q.socks - 1
           r == [Fresh("exited") EXCEPT !.socks = held, !.files = q.files,
                                !.left = q.left]
<1>1. s.pc = "close" /\ ftp_working' = ftp_working /\ Put(t, r)
  BY DEF Close, At
<1>2. Idle(s)  BY <1>1, SInvIsIdle DEF IdlePlaces
<1>3. /\ Settled(q) /\ SameButSockets(q, s)
      /\ q.data = "none" /\ q.pasv = "none"
  BY <1>2, IdleIsSettled, CloseSettled
<1> HIDE DEF q
<1>4. q \in Session /\ q.files <= q.left /\ q.files \in Nat /\ q.left \in Nat
  BY <1>3, Numbers DEF Settled
<1>5. held = 0
  BY <1>3 DEF Settled, SocketSum, One
<1> HIDE DEF held
<1> DEFINE f == Fresh("exited")
<1>7. f \in Session /\ 0 \in Nat  BY FreshFields
<1>b. r = [f EXCEPT !.socks = 0, !.files = q.files,
                    !.left = q.left]
  BY <1>5
<1>8. r \in Session
  <2> HIDE DEF f, r
  <2> QED
    BY <1>4, <1>7, <1>b DEF Session
<1>9. /\ r.pc = "exited" /\ r.socks = 0 /\ r.files = q.files /\ r.left = q.left
      /\ r.cmd = NoCommand /\ r.data = "none"
      /\ r.pasv = "none" /\ r.rest = 0 /\ r.lost = FALSE /\ r.reply = "none"
  BY <1>5 DEF Fresh
<1> HIDE DEF r
<1>10. FilesHeld(r)
  BY <1>4, <1>9 DEF FilesHeld, One
<1>11. SInv(r)
  BY <1>8, <1>9, <1>10 DEF SInv, SocketsHeld, StoreAnswerIsTrue, StartsAtZero,
       FileInHand, RestIsFresh, NoAnswerYet
<1>12. ~Transferring(s) /\ ~Transferring(r)
  BY <1>2, <1>9 DEF Transferring, Idle, IdlePlaces
<1> QED
  BY <1>1, <1>9, <1>11, <1>12 DEF Step, BusyStep

LEMMA NewIdle ==
  ASSUME NEW r \in Session, r.pc = "test", r.data = "none", r.pasv = "none",
         r.socks = One(r.sock # NoSock), r.files = 0, r.left = 0, r.rest = 0,
         r.reply = "none", r.lost = FALSE
  PROVE  Idle(r)
<1>1. r.socks = SocketSum(r)
  BY Numbers DEF SocketSum, One
<1> QED
  BY <1>1 DEF Idle, IdlePlaces, RestIsFresh

LEMMA StartStep ==
  ASSUME NEW t \in Threads, SInv(ses[t]), conn_s \in Conns \cup {NoSock},
         Start(t)
  PROVE  Step(t)
<1> DEFINE f == Fresh("test")
           k == IF conn_s = NoSock THEN 0 ELSE 1
<1>1. /\ f \in Session /\ f.pc = "test" /\ f.data = "none" /\ f.pasv = "none"
      /\ f.files = 0 /\ f.left = 0 /\ f.rest = 0 /\ f.reply = "none"
      /\ f.lost = FALSE
  BY FreshFields DEF Fresh
<1>2. k \in Nat /\ k = One(conn_s # NoSock)
  BY DEF One
<1> HIDE DEF k, f
<1>3. PICK e \in {"", "junk"} :
        Put(t, [f EXCEPT !.sock = conn_s, !.expect = e, !.socks = k])
  BY DEF Start, f, k
<1> DEFINE r == [f EXCEPT !.sock = conn_s, !.expect = e, !.socks = k]
<1>4. r \in Session
  BY <1>1, <1>2 DEF Session
<1>5. /\ r.pc = "test" /\ r.sock = conn_s /\ r.data = "none"
      /\ r.pasv = "none" /\ r.socks = k /\ r.files = 0 /\ r.left = 0
      /\ r.rest = 0 /\ r.reply = "none" /\ r.lost = FALSE
  BY <1>1 DEF Session
<1> HIDE DEF r
<1>7. Idle(r)
  BY <1>2, <1>4, <1>5, NewIdle
<1>8. ~Transferring(ses[t]) /\ ftp_working' = ftp_working
  BY DEF Start, At, Transferring, OnlySes
<1> QED
  BY <1>3, <1>5, <1>7, <1>8, RefusedStep DEF r

(* Every step of a client thread keeps what SInv says of its session.      *)
LEMMA ClientSteps ==
  ASSUME NEW t \in Threads, SInv(ses[t]), conn_s \in Conns \cup {NoSock},
         Client(t)
  PROVE  Step(t)
<1>1. CASE \/ TestState(t) \/ RecvCommand(t) \/ RecvEnd(t) \/ RecvError(t)
  BY <1>1, LoopSteps
<1>2. CASE \/ BadSequence(t) \/ Empty(t) \/ NoopOrQuit(t) \/ JustAnswer(t)
           \/ LogIn(t) \/ Echo(t) \/ Change(t) \/ Mark(t) \/ RenameFrom(t)
           \/ Restart(t) \/ ExitApp(t) \/ ListHere(t)
  BY <1>2, CommandSteps
<1>3. CASE Pasv(t) \/ Port(t) \/ Abort(t) \/ OpenList(t) \/ OpenFile(t)
  BY <1>3, DataCommandSteps
<1>4. CASE UsePort(t) \/ AcceptData(t) \/ ConnectLegacy(t)
  BY <1>4, ConnectSteps
<1>5. CASE NoBuffer(t) \/ StoreBlock(t) \/ RetrieveBlock(t) \/ ListBlock(t)
  BY <1>5, BlockSteps
<1>6. CASE Finish(t)
  BY <1>6, FinishStep
<1>7. CASE Close(t)
  BY <1>7, CloseStep
<1>8. CASE Start(t)
  BY <1>8, StartStep
<1> QED
  BY <1>1, <1>2, <1>3, <1>4, <1>5, <1>6, <1>7, <1>8 DEF Client

-----------------------------------------------------------------------------
(* The variables outside the sessions.                                     *)
SharedOK ==
  /\ appstate \in {0, 1}
  /\ ftp_working \in 0..3
  /\ net \in BOOLEAN
  /\ conn \in [Conns -> ConnStates]
  /\ conn_s \in Conns \cup {NoSock}
  /\ received \in 0..MaxCommands

LEMMA ClientShared ==
  ASSUME NEW t \in Threads, SharedOK, Client(t)
  PROVE  SharedOK'
<1>1. CASE \/ OnlySes
           \/ UNCHANGED <<appstate, net, conn, conn_s, received>>
                /\ ftp_working' \in {0, 1, 2, ftp_working}
  BY <1>1 DEF SharedOK, OnlySes
<1>2. CASE \/ Start(t) \/ TestState(t) \/ RecvEnd(t) \/ RecvError(t)
           \/ BadSequence(t) \/ Empty(t) \/ JustAnswer(t) \/ LogIn(t)
           \/ Echo(t) \/ Change(t) \/ RenameFrom(t) \/ Restart(t)
           \/ ListHere(t) \/ Pasv(t) \/ Port(t) \/ Abort(t) \/ OpenList(t)
           \/ UsePort(t) \/ AcceptData(t) \/ ConnectLegacy(t) \/ NoBuffer(t)
           \/ StoreBlock(t) \/ RetrieveBlock(t) \/ ListBlock(t)
  BY <1>1, <1>2 DEF Start, TestState, RecvEnd, RecvError, BadSequence, Empty,
       JustAnswer, LogIn, Echo, Change, RenameFrom, Restart, ListHere, Pasv,
       Port, Abort, OpenList, UsePort, AcceptData, ConnectLegacy, NoBuffer,
       StoreBlock, RetrieveBlock, ListBlock
<1>3. CASE NoopOrQuit(t) \/ Mark(t) \/ OpenFile(t) \/ Finish(t)
  BY <1>1, <1>3 DEF NoopOrQuit, Mark, OpenFile, Finish
<1>4. CASE RecvCommand(t)
  <2>1. received' \in 0..MaxCommands
    <3>1. /\ received \in 0..MaxCommands /\ received < MaxCommands
          /\ received' = received + 1
      BY <1>4 DEF RecvCommand, SharedOK
    <3> QED
      BY <3>1, BoundsAssumption
  <2> QED
    BY <1>4, <2>1 DEF RecvCommand, SharedOK
<1>5. CASE ExitApp(t)
  BY <1>5 DEF ExitApp, SharedOK
<1>6. CASE Close(t)
  BY <1>6 DEF Close, SharedOK, ConnStates
<1> QED
  BY <1>2, <1>3, <1>4, <1>5, <1>6 DEF Client

(* The inductive invariant of the sessions.                                *)
SesInv ==
  /\ SharedOK
  /\ ses \in [Threads -> Session]
  /\ \A u \in Threads : SInv(ses[u])

LEMMA ClientKeeps ==
  ASSUME SesInv, NEW t \in Threads, Client(t)
  PROVE  SesInv'
<1>1. Step(t)  BY ClientSteps DEF SesInv, SharedOK
<1>2. PICK r : Put(t, r) /\ SInv(r)  BY <1>1 DEF Step
<1>3. /\ ses' \in [Threads -> Session]
      /\ \A u \in Threads : SInv(ses'[u])
  BY <1>2, PutKeeps DEF SesInv
<1> QED
  BY <1>3, ClientShared DEF SesInv

LEMMA PeerKeeps ==
  ASSUME SesInv, NEW c \in Conns, Peer(c)
  PROVE  SesInv'
<1>1. SharedOK'
  BY DEF SesInv, SharedOK, Peer, ConnStates
<1> QED
  BY <1>1 DEF SesInv, Peer

LEMMA SesInitHolds == SesInit => SesInv
<1> SUFFICES ASSUME SesInit  PROVE SesInv
  OBVIOUS
<1>1. SharedOK
  BY BoundsAssumption DEF SesInit, SharedOK, ConnStates
<1>2. Fresh("start") \in Session /\ SInv(Fresh("start"))
  BY FreshFields
<1> QED
  BY <1>1, <1>2 DEF SesInit, SesInv

LEMMA SesInvHolds == SesSpec => []SesInv
<1>1. SesInv /\ [SesNext]_sesVars => SesInv'
  <2> SUFFICES ASSUME SesInv, [SesNext]_sesVars  PROVE SesInv'
    OBVIOUS
  <2>1. CASE SesNext
    BY <2>1, ClientKeeps, PeerKeeps DEF SesNext
  <2>2. CASE UNCHANGED sesVars
    BY <2>2 DEF sesVars, SesInv, SharedOK
  <2> QED
    BY <2>1, <2>2
<1> QED
  BY <1>1, SesInitHolds, PTL DEF SesSpec
LEMMA SesInvImplies ==
  ASSUME SesInv
  PROVE  /\ SesTypeOK /\ DescriptorsAccounted
         /\ StoreAnswersAreTrue /\ FreshTransfersStartAtZero
BY DEF SesInv, SharedOK, SInv, SesTypeOK, DescriptorsAccounted,
       StoreAnswersAreTrue, FreshTransfersStartAtZero

(* The variables of the FTP threads keep their types.                      *)
THEOREM SesTypeCorrect == SesSpec => []SesTypeOK
BY SesInvHolds, SesInvImplies, PTL

(* For any number of threads, connections and commands: a client thread    *)
(* holds exactly the sockets its locals name, none after its end, and no   *)
(* file but the one of its transfer and one for each 425 it answered.      *)
THEOREM DescriptorsAreAccounted == SesSpec => []DescriptorsAccounted
BY SesInvHolds, SesInvImplies, PTL

(* An upload answered with 226 was received to its end and written.        *)
THEOREM StoreAnswersHold == SesSpec => []StoreAnswersAreTrue
BY SesInvHolds, SesInvImplies, PTL

(* A transfer after PASV or PORT without a REST starts at offset 0.        *)
THEOREM FreshTransfersHold == SesSpec => []FreshTransfersStartAtZero
BY SesInvHolds, SesInvImplies, PTL

-----------------------------------------------------------------------------
(* Between a test of ftp_working and its assignment every transfer that is *)
(* in hand has its excuse: the test did not see 1, or the transfer began   *)
(* in between.                                                             *)
AllHiddenBut(t) ==
  \A u \in Threads : (u # t /\ Transferring(ses[u])) => u \in hidden
AssignmentsAreExcused ==
  /\ kpc \in {"set3", "set0"} =>
       \A u \in Threads : Transferring(ses[u]) => u \in hidden
  /\ \A t \in Threads : At(t, "mark") => AllHiddenBut(t)

ShownInv == BusyIsExplained /\ TransfersAreShown /\ AssignmentsAreExcused

(* The server. The counter of the control thread is below its limit at the *)
(* head of the loop, which keeps ticks + 1 within it.                      *)
SrvInv ==
  /\ SesInv
  /\ gui \in {"idle", "netdown", "joinListener", "joinControl"}
  /\ ftp_initialized \in {0, 1}
  /\ lpc \in {"off", "bind", "test", "accept", "spawn", "exited"}
  /\ kpc \in {"off", "test", "set3", "late", "set0", "exited"}
  /\ ticks \in 0..Ticks
  /\ kpc = "test" => ticks < Ticks
  /\ starts \in 0..MaxStarts
  /\ given_up \in BOOLEAN
  /\ hidden \subseteq Threads
  /\ ShownInv

LEMMA SrvInitHolds == Init => SrvInv
<1> SUFFICES ASSUME Init  PROVE SrvInv
  OBVIOUS
<1>1. SharedOK
  <2>1. net \in BOOLEAN  BY DEF Init
  <2>2. appstate \in {0, 1} /\ ftp_working \in 0..3 /\ received \in 0..MaxCommands
    BY BoundsAssumption DEF Init
  <2>3. conn \in [Conns -> ConnStates] /\ conn_s \in Conns \cup {NoSock}
    BY DEF Init, ConnStates
  <2> QED
    BY <2>1, <2>2, <2>3 DEF SharedOK
<1>2. Fresh("off") \in Session /\ SInv(Fresh("off"))
  BY FreshFields
<1>3. SesInv
  BY <1>1, <1>2 DEF Init, SesInv
<1>4. 0 \in 0..Ticks /\ 0 \in 0..MaxStarts
  BY ServerAssumption
<1>5. \A u \in Threads : ~At(u, "mark") /\ ~Transferring(ses[u])
  BY DEF Init, Fresh, At, Transferring
<1>7. ShownInv
  BY <1>5 DEF Init, ShownInv, BusyIsExplained, TransfersAreShown,
              AssignmentsAreExcused
<1>6. given_up \in BOOLEAN /\ hidden \subseteq Threads
  BY DEF Init
<1> QED
  BY <1>3, <1>4, <1>6, <1>7 DEF Init, SrvInv

(* A step that neither assigns ftp_working nor begins, ends or marks.      *)
LEMMA ShownKept ==
  ASSUME ShownInv, UNCHANGED <<ftp_working, given_up, hidden>>,
         kpc' \in {"set3", "set0"} => kpc \in {"set3", "set0"},
         \A u \in Threads :
           /\ Transferring(ses'[u]) <=> Transferring(ses[u])
           /\ ses'[u].pc = "mark" => ses[u].pc = "mark"
  PROVE  ShownInv'
<1>1. BusyIsExplained'
  BY DEF ShownInv, BusyIsExplained
<1>2. TransfersAreShown'
  BY DEF ShownInv, TransfersAreShown
<1>3. AssignmentsAreExcused'
  BY DEF ShownInv, AssignmentsAreExcused, AllHiddenBut, At
<1> QED
  BY <1>1, <1>2, <1>3 DEF ShownInv

LEMMA ShownSame ==
  ASSUME ShownInv, UNCHANGED <<ftp_working, given_up, hidden, ses>>,
         kpc' \in {"set3", "set0"} => kpc \in {"set3", "set0"}
  PROVE  ShownInv'
<1>1. \A u \in Threads :
        /\ Transferring(ses'[u]) <=> Transferring(ses[u])
        /\ ses'[u].pc = "mark" => ses[u].pc = "mark"
  OBVIOUS
<1> QED
  BY <1>1, ShownKept

(* ftp_init and ftp_deinit hide every transfer.                            *)
LEMMA ForgetsKeeps ==
  ASSUME SrvInv, Forgets, ftp_working' = 0, UNCHANGED ses
  PROVE  ShownInv' /\ given_up' \in BOOLEAN /\ hidden' \subseteq Threads
<1>1. \A u \in Threads : Transferring(ses'[u]) => u \in hidden'
  BY DEF Forgets
<1>2. BusyIsExplained'
  BY DEF BusyIsExplained
<1>3. TransfersAreShown'
  BY <1>1 DEF TransfersAreShown
<1>4. AssignmentsAreExcused'
  BY <1>1 DEF AssignmentsAreExcused, AllHiddenBut
<1> QED
  BY <1>2, <1>3, <1>4 DEF ShownInv, Forgets

(* The dead sockets are still held: their closes are still to come.        *)
LEMMA DeadKeeps ==
  ASSUME NEW s, SInv(s)
  PROVE  LET r == [s EXCEPT !.data = IF @ = "none" THEN "none" ELSE "dead",
                            !.pasv = IF @ = "none" THEN "none" ELSE "dead"]
         IN  /\ SInv(r) /\ r.pc = s.pc
             /\ Transferring(r) <=> Transferring(s)
<1> DEFINE d == IF s.data = "none" THEN "none" ELSE "dead"
           p == IF s.pasv = "none" THEN "none" ELSE "dead"
           r == [s EXCEPT !.data = d, !.pasv = p]
<1>1. s \in Session  BY DEF SInv
<1>2. /\ d \in {"none", "dead"} /\ p \in {"none", "dead"}
      /\ d # "none" <=> s.data # "none"
      /\ p # "none" <=> s.pasv # "none"
  OBVIOUS
<1> HIDE DEF d, p
<1>3. r \in Session  BY <1>1, <1>2 DEF Session
<1>4. /\ r.pc = s.pc /\ r.sock = s.sock /\ r.data = d /\ r.pasv = p
      /\ r.socks = s.socks /\ r.files = s.files /\ r.left = s.left
      /\ r.rest = s.rest /\ r.asked = s.asked
      /\ r.reply = s.reply /\ r.lost = s.lost /\ r.cmd = s.cmd
  BY <1>1 DEF Session
<1> HIDE DEF r
<1>5. SocketsHeld(r)
  BY <1>2, <1>4 DEF SInv, SocketsHeld, One
<1>6. FilesHeld(r) /\ FileInHand(r)
  BY <1>4 DEF SInv, FilesHeld, FileInHand
<1>7. StoreAnswerIsTrue(r) /\ NoAnswerYet(r)
  BY <1>4 DEF SInv, StoreAnswerIsTrue, NoAnswerYet
<1>8. RestIsFresh(r) /\ StartsAtZero(r)
  BY <1>2, <1>4 DEF RestIsFresh, StartsAtZero
<1>9. r.pc = s.pc /\ (Transferring(r) <=> Transferring(s))
  BY <1>4 DEF Transferring
<1> QED
  BY <1>3, <1>5, <1>6, <1>7, <1>8, <1>9 DEF SInv, r, d, p

LEMMA NetDeinitKeeps ==
  ASSUME SrvInv, ftp_net_deinit
  PROVE  SrvInv'
<1> DEFINE dead(t) ==
      [ses[t] EXCEPT !.data = IF @ = "none" THEN "none" ELSE "dead",
                     !.pasv = IF @ = "none" THEN "none" ELSE "dead"]
<1>1. \A t \in Threads :
        /\ ses'[t] = dead(t) /\ SInv(dead(t))
        /\ dead(t).pc = ses[t].pc
        /\ Transferring(dead(t)) <=> Transferring(ses[t])
  BY DeadKeeps DEF ftp_net_deinit, SocketsDie, SrvInv, SesInv
<1> HIDE DEF dead
<1>2. ses' \in [Threads -> Session]
  <2>1. ses' = [t \in Threads |-> ses'[t]]
    BY DEF ftp_net_deinit, SocketsDie
  <2> QED
    BY <1>1, <2>1 DEF SInv
<1>3. conn' \in [Conns -> ConnStates]
  BY DEF ftp_net_deinit, SocketsDie, SrvInv, SesInv, SharedOK, ConnStates
<1>4. SesInv'
  BY <1>1, <1>2, <1>3 DEF ftp_net_deinit, SrvInv, SesInv, SharedOK
<1>5. UNCHANGED <<ftp_working, given_up, hidden, kpc>>
  BY DEF ftp_net_deinit, history
<1>6. ShownInv'
  BY <1>1, <1>5, ShownKept DEF SrvInv
<1> QED
  BY <1>4, <1>5, <1>6 DEF ftp_net_deinit, SrvInv

LEMMA GuiKeeps ==
  ASSUME SrvInv, Gui
  PROVE  SrvInv'
<1>1. CASE ftp_init
  <2>1. starts' \in 0..MaxStarts /\ 0 \in 0..Ticks /\ 0 < Ticks
    <3>1. starts \in 0..MaxStarts /\ starts < MaxStarts /\ starts' = starts + 1
      BY <1>1 DEF ftp_init, SrvInv
    <3> QED
      BY <3>1, ServerAssumption
  <2>2. SesInv'
    <3>1. net' \in BOOLEAN
      <4>1. net \in BOOLEAN  BY DEF SrvInv, SesInv, SharedOK
      <4>2. CASE net' = TRUE  BY <4>2
      <4>3. CASE UNCHANGED net  BY <4>1, <4>3
      <4> QED
        BY <1>1, <4>2, <4>3 DEF ftp_init
    <3>2. appstate' \in {0, 1} /\ ftp_working' \in 0..3
      BY <1>1 DEF ftp_init, SrvInv, SesInv, SharedOK
    <3>3. UNCHANGED <<conn, conn_s, ses, received>>
      BY <1>1 DEF ftp_init
    <3> QED
      BY <3>1, <3>2, <3>3 DEF SrvInv, SesInv, SharedOK
  <2>3. ShownInv' /\ given_up' \in BOOLEAN /\ hidden' \subseteq Threads
    <3>1. Forgets /\ ftp_working' = 0 /\ UNCHANGED ses
      BY <1>1 DEF ftp_init
    <3> QED
      BY <3>1, ForgetsKeeps
  <2>4. /\ lpc' \in {"off", "bind", "test", "accept", "spawn", "exited"}
        /\ kpc' \in {"off", "test", "set3", "late", "set0", "exited"}
        /\ ticks' \in 0..Ticks
        /\ kpc' = "test" => ticks' < Ticks
    BY <1>1, <2>1 DEF ftp_init, SrvInv
  <2>5. gui' \in {"idle", "netdown", "joinListener", "joinControl"}
        /\ ftp_initialized' \in {0, 1}
    BY <1>1 DEF ftp_init, SrvInv
  <2> QED
    BY <2>1, <2>2, <2>3, <2>4, <2>5 DEF SrvInv
<1>2. CASE SetAppstate
  <2>1. SesInv'
    BY <1>2 DEF SetAppstate, SrvInv, SesInv, SharedOK
  <2>2. ShownInv'
    BY <1>2, ShownSame DEF SetAppstate, SrvInv, history
  <2> QED
    BY <1>2, <2>1, <2>2 DEF SetAppstate, SrvInv, history
<1>3. CASE ftp_net_deinit
  BY <1>3, NetDeinitKeeps
<1>4. CASE JoinListener
  <2>1. SesInv'
    BY <1>4 DEF JoinListener, SrvInv, SesInv, SharedOK, sesVars
  <2>2. ShownInv'
    BY <1>4, ShownSame DEF JoinListener, SrvInv, history, sesVars
  <2> QED
    BY <1>4, <2>1, <2>2 DEF JoinListener, SrvInv, history, sesVars
<1>5. CASE JoinControl
  <2>1. SesInv'
    BY <1>5 DEF JoinControl, SrvInv, SesInv, SharedOK
  <2>2. ShownInv' /\ given_up' \in BOOLEAN /\ hidden' \subseteq Threads
    <3>1. Forgets /\ ftp_working' = 0 /\ UNCHANGED ses
      BY <1>5 DEF JoinControl
    <3> QED
      BY <3>1, ForgetsKeeps
  <2> QED
    BY <1>5, <2>1, <2>2 DEF JoinControl, SrvInv
<1> QED
  BY <1>1, <1>2, <1>3, <1>4, <1>5 DEF Gui

LEMMA SpawnKeeps ==
  ASSUME SrvInv, Spawn
  PROVE  SrvInv'
<1>0. UNCHANGED <<ftp_working, given_up, hidden, kpc>>
  BY DEF Spawn, history
<1>1. CASE UNCHANGED ses
  <2>1. SesInv'
    BY <1>1 DEF Spawn, SrvInv, SesInv, SharedOK
  <2>2. ShownInv'
    BY <1>0, <1>1, ShownSame DEF SrvInv
  <2> QED
    BY <1>0, <2>1, <2>2 DEF Spawn, SrvInv
<1>2. ASSUME NEW t \in Threads, At(t, "off"), Put(t, Fresh("start"))
      PROVE  SrvInv'
  <2>1. /\ ses' \in [Threads -> Session]
        /\ \A u \in Threads : SInv(ses'[u])
    BY <1>2, FreshFields, PutKeeps DEF SrvInv, SesInv
  <2>2. SesInv'
    BY <2>1 DEF Spawn, SrvInv, SesInv, SharedOK
  <2>3. ses'[t].pc = "start" /\ ~Transferring(ses[t])
    BY <1>2 DEF SrvInv, SesInv, At, Transferring, Put, Fresh
  <2>4. \A u \in Threads : u # t => ses'[u] = ses[u]
    BY <1>2 DEF Put, SrvInv, SesInv
  <2>5. ~Transferring(ses'[t])
    BY <2>3 DEF Transferring
  <2>6. \A u \in Threads :
          /\ Transferring(ses'[u]) <=> Transferring(ses[u])
          /\ ses'[u].pc = "mark" => ses[u].pc = "mark"
    BY <2>3, <2>4, <2>5
  <2>7. ShownInv'
    BY <1>0, <2>6, ShownKept DEF SrvInv
  <2> QED
    BY <1>0, <2>2, <2>7 DEF Spawn, SrvInv
<1> QED
  <2> DEFINE unused == {t \in Threads : At(t, "off")}
  <2>1. ASSUME unused # {}
        PROVE  (CHOOSE t \in unused : TRUE) \in unused
    BY <2>1
  <2> QED
    BY <1>1, <1>2, <2>1 DEF Spawn

LEMMA ListenerKeeps ==
  ASSUME SrvInv, Listener
  PROVE  SrvInv'
<1>1. CASE Bind
  <2>1. SesInv'
    BY <1>1 DEF Bind, SrvInv, SesInv, SharedOK
  <2>2. ShownInv'
    BY <1>1, ShownSame DEF Bind, SrvInv, history
  <2> QED
    BY <1>1, <2>1, <2>2 DEF Bind, SrvInv, history
<1>2. CASE ListenerTests
  <2>1. SesInv'
    BY <1>2 DEF ListenerTests, SrvInv, SesInv, SharedOK, sesVars
  <2>2. ShownInv'
    BY <1>2, ShownSame DEF ListenerTests, SrvInv, sesVars, history
  <2> QED
    BY <1>2, <2>1, <2>2 DEF ListenerTests, SrvInv, history
<1>3. CASE Accept
  <2>1. SharedOK'
    BY <1>3 DEF Accept, SrvInv, SesInv, SharedOK, ConnStates
  <2>2. SesInv'
    BY <1>3, <2>1 DEF Accept, SrvInv, SesInv
  <2>3. ShownInv'
    BY <1>3, ShownSame DEF Accept, SrvInv, history
  <2> QED
    BY <1>3, <2>2, <2>3 DEF Accept, SrvInv, history
<1>4. CASE Spawn
  BY <1>4, SpawnKeeps
<1> QED
  BY <1>1, <1>2, <1>3, <1>4 DEF Listener

(* The control thread tests before it assigns, and not 1.                  *)
LEMMA ControlShown ==
  ASSUME SrvInv, Control
  PROVE  ShownInv' /\ given_up' \in BOOLEAN
<1>1. UNCHANGED <<ses, hidden>>  BY DEF Control, Wake, SetThree, Late, SetZero, Quiet
<1>2. CASE SetThree \/ SetZero
  <2>1. ftp_working' # 1 /\ given_up' = FALSE /\ kpc \in {"set3", "set0"}
    BY <1>2 DEF SetThree, SetZero
  <2>2. \A u \in Threads : Transferring(ses'[u]) => u \in hidden'
    BY <1>1, <2>1 DEF SrvInv, ShownInv, AssignmentsAreExcused
  <2>3. BusyIsExplained' /\ TransfersAreShown'
    BY <2>1, <2>2 DEF BusyIsExplained, TransfersAreShown
  <2>4. AssignmentsAreExcused'
    BY <2>2 DEF AssignmentsAreExcused, AllHiddenBut
  <2> QED
    BY <2>1, <2>3, <2>4 DEF ShownInv
<1>3. CASE Wake \/ Late
  <2>1. UNCHANGED <<ftp_working, given_up>>
    BY <1>3 DEF Wake, Late
  <2>2. CASE kpc' \notin {"set3", "set0"}
    BY <1>1, <2>1, <2>2, ShownSame DEF SrvInv
  <2>3. CASE kpc' \in {"set3", "set0"}
    <3>1. ftp_working # 1
      BY <1>3, <2>3 DEF Wake, Late
    <3>2. \A u \in Threads : Transferring(ses'[u]) => u \in hidden'
      BY <1>1, <3>1 DEF SrvInv, ShownInv, TransfersAreShown
    <3>3. BusyIsExplained' /\ TransfersAreShown'
      BY <2>1, <3>1, <3>2 DEF BusyIsExplained, TransfersAreShown
    <3>4. AssignmentsAreExcused'
      BY <3>2 DEF AssignmentsAreExcused, AllHiddenBut
    <3> QED
      BY <2>1, <3>3, <3>4 DEF ShownInv, SrvInv
  <2>4. given_up' \in BOOLEAN
    BY <2>1 DEF SrvInv
  <2> QED
    BY <2>2, <2>3, <2>4
<1> QED
  BY <1>2, <1>3 DEF Control

LEMMA ControlKeeps ==
  ASSUME SrvInv, Control
  PROVE  SrvInv'
<1>1. Quiet /\ ftp_working' \in {0, 3, ftp_working}
  BY DEF Control, Wake, SetThree, Late, SetZero
<1>2. SesInv'
  BY <1>1 DEF Quiet, SrvInv, SesInv, SharedOK
<1>3. ShownInv' /\ given_up' \in BOOLEAN
  BY ControlShown
<1>4. /\ kpc' \in {"off", "test", "set3", "late", "set0", "exited"}
      /\ ticks' \in 0..Ticks
      /\ kpc' = "test" => ticks' < Ticks
  <2>1. /\ ticks \in 0..Ticks /\ (kpc = "test" => ticks < Ticks)
        /\ Ticks \in Nat /\ 0 < Ticks
    BY ServerAssumption DEF SrvInv
  <2>2. CASE Wake  BY <2>1, <2>2 DEF Wake
  <2>3. CASE SetThree  BY <2>1, <2>3 DEF SetThree
  <2>4. CASE Late  BY <2>1, <2>4 DEF Late
  <2>5. CASE SetZero  BY <2>1, <2>5 DEF SetZero
  <2> QED
    BY <2>2, <2>3, <2>4, <2>5 DEF Control
<1> QED
  BY <1>1, <1>2, <1>3, <1>4 DEF Quiet, SrvInv

LEMMA ConnectKeeps ==
  ASSUME SrvInv, Connect
  PROVE  SrvInv'
<1>1. conn' \in [Conns -> ConnStates]
  BY DEF Connect, SrvInv, SesInv, SharedOK, ConnStates
<1>2. SesInv'
  BY <1>1 DEF Connect, SrvInv, SesInv, SharedOK
<1>3. ShownInv'
  BY ShownSame DEF Connect, SrvInv, srvVars, history
<1> QED
  BY <1>2, <1>3 DEF Connect, SrvInv, srvVars, history

(* A step of a client thread, with what it does to the history.            *)
LEMMA ClientShown ==
  ASSUME SrvInv, NEW t \in Threads, ClientStep(t)
  PROVE  ShownInv' /\ given_up' \in BOOLEAN /\ hidden' \subseteq Threads
<1>1. PICK r : Put(t, r) /\ SInv(r) /\ BusyStep(ses[t], r)
  BY ClientSteps DEF Step, SrvInv, SesInv, SharedOK, ClientStep
<1>2. /\ ses'[t] = r
      /\ \A u \in Threads : u # t => ses'[u] = ses[u]
  BY <1>1 DEF Put, SrvInv, SesInv
<1>3. History(t) /\ UNCHANGED kpc
  BY DEF ClientStep, srvVars
<1>4. BusyIsExplained'
  <2> SUFFICES ASSUME ftp_working' = 1, ~Transferring(ses'[t]), ~given_up'
               PROVE  \E u \in Threads : Transferring(ses'[u])
    BY DEF BusyIsExplained
  <2>1. ~Begins(t)  BY DEF Begins
  <2>2. ~given_up /\ ~GivesUp(t)
    BY <1>3, <2>1 DEF History
  <2>3. /\ ftp_working = 1
        /\ Transferring(ses[t]) => (ses[t].pc = "connect" /\ r.pc = "test")
    BY <1>1, <1>2 DEF BusyStep
  <2>4. ~Transferring(ses[t])
    BY <1>2, <2>2, <2>3 DEF GivesUp
  <2>5. PICK u \in Threads : Transferring(ses[u])
    BY <2>2, <2>3 DEF SrvInv, ShownInv, BusyIsExplained
  <2> QED
    BY <1>2, <2>4, <2>5
<1>5. TransfersAreShown'
  <2> SUFFICES ASSUME NEW u \in Threads, Transferring(ses'[u]),
                      ftp_working' # 1
               PROVE  u \in hidden'
    BY DEF TransfersAreShown
  <2>1. CASE u = t
    <3>1. Transferring(ses[t]) /\ ftp_working' = ftp_working
      BY <1>1, <1>2, <2>1 DEF BusyStep
    <3>2. t \in hidden
      BY <3>1 DEF SrvInv, ShownInv, TransfersAreShown
    <3> QED
      BY <1>3, <2>1, <3>2 DEF History
  <2>2. CASE u # t
    <3>1. Transferring(ses[u])  BY <1>2, <2>2
    <3>2. u \in hidden \/ Overwrites(t)
      <4>1. CASE At(t, "mark")
        BY <2>2, <3>1, <4>1 DEF SrvInv, ShownInv, AssignmentsAreExcused,
                                AllHiddenBut
      <4>2. CASE ~At(t, "mark")
        BY <3>1, <4>2 DEF SrvInv, ShownInv, TransfersAreShown, Overwrites
      <4> QED
        BY <4>1, <4>2
    <3> QED
      BY <1>3, <2>2, <3>2 DEF History
  <2> QED
    BY <2>1, <2>2
<1>6. ASSUME NEW u \in Threads, Transferring(ses'[u]),
             \/ kpc \in {"set3", "set0"}
             \/ \E v \in Threads \ {u} : At(v, "mark")
      PROVE  u \in hidden'
  <2>1. CASE ~Transferring(ses[u])
    <3>1. u = t  BY <1>2, <1>6, <2>1
    <3>2. Begins(t) /\ AboutToAssign(t)
      BY <1>6, <2>1, <3>1 DEF Begins, AboutToAssign
    <3> QED
      BY <1>3, <1>6, <3>1, <3>2 DEF History
  <2>2. CASE Transferring(ses[u])
    <3>1. u \in hidden
      BY <1>6, <2>2 DEF SrvInv, ShownInv, AssignmentsAreExcused, AllHiddenBut
    <3> QED
      BY <1>3, <1>6, <3>1 DEF History
  <2> QED
    BY <2>1, <2>2
<1>7. AssignmentsAreExcused'
  <2>1. ASSUME kpc' \in {"set3", "set0"},
               NEW u \in Threads, Transferring(ses'[u])
        PROVE  u \in hidden'
    BY <1>3, <1>6, <2>1
  <2>2. ASSUME NEW v \in Threads, ses'[v].pc = "mark",
               NEW u \in Threads, u # v, Transferring(ses'[u])
        PROVE  u \in hidden'
    <3>1. CASE At(v, "mark")
      BY <1>6, <2>2, <3>1
    <3>2. CASE ~At(v, "mark")
      <4>1. v = t  BY <1>2, <2>2, <3>2 DEF At
      <4>2. ftp_working # 1  BY <1>1, <1>2, <2>2, <4>1 DEF BusyStep
      <4>3. Transferring(ses[u])  BY <1>2, <2>2, <4>1
      <4>4. u \in hidden
        BY <4>2, <4>3 DEF SrvInv, ShownInv, TransfersAreShown
      <4> QED
        BY <1>3, <2>2, <4>4 DEF History
    <3> QED
      BY <3>1, <3>2
  <2> QED
    BY <2>1, <2>2 DEF AssignmentsAreExcused, AllHiddenBut, At
<1>8. given_up' \in BOOLEAN
  BY <1>3 DEF History
<1>9. hidden' \subseteq Threads
  BY <1>3 DEF History
<1> QED
  BY <1>4, <1>5, <1>7, <1>8, <1>9 DEF ShownInv

LEMMA OthersKeep ==
  ASSUME SrvInv, Others
  PROVE  SrvInv'
<1>1. ASSUME NEW t \in Threads, ClientStep(t)
      PROVE  SrvInv'
  <2>1. SesInv'
    BY <1>1, ClientKeeps DEF SrvInv, ClientStep
  <2>2. ShownInv' /\ given_up' \in BOOLEAN /\ hidden' \subseteq Threads
    BY <1>1, ClientShown
  <2>3. UNCHANGED srvVars  BY <1>1 DEF ClientStep
  <2> QED
    BY <2>1, <2>2, <2>3 DEF srvVars, SrvInv
<1>2. ASSUME NEW c \in Conns, Peer(c), UNCHANGED <<srvVars, history>>
      PROVE  SrvInv'
  <2>1. SesInv'
    BY <1>2, PeerKeeps DEF SrvInv
  <2>2. ShownInv'
    BY <1>2, ShownSame DEF SrvInv, Peer, srvVars, history
  <2> QED
    BY <1>2, <2>1, <2>2 DEF srvVars, history, SrvInv
<1> QED
  BY <1>1, <1>2 DEF Others

LEMMA SrvInvHolds == Spec => []SrvInv
<1>1. SrvInv /\ [Next]_vars => SrvInv'
  <2> SUFFICES ASSUME SrvInv, [Next]_vars  PROVE SrvInv'
    OBVIOUS
  <2>1. CASE Next
    BY <2>1, GuiKeeps, ListenerKeeps, ControlKeeps, OthersKeep, ConnectKeeps
       DEF Next
  <2>2. CASE UNCHANGED vars
    <3>1. SesInv'
      BY <2>2 DEF vars, sesVars, SrvInv, SesInv, SharedOK
    <3>2. ShownInv'
      BY <2>2, ShownSame DEF vars, sesVars, srvVars, history, SrvInv
    <3> QED
      BY <2>2, <3>1, <3>2 DEF vars, srvVars, history, SrvInv
  <2> QED
    BY <2>1, <2>2
<1> QED
  BY <1>1, SrvInitHolds, PTL DEF Spec

LEMMA SrvInvImplies ==
  ASSUME SrvInv
  PROVE  /\ SrvTypeOK /\ DescriptorsAccounted
         /\ ActivityIsTrue
BY SesInvImplies DEF SrvInv, ShownInv, ActivityIsTrue, SrvTypeOK

(* The variables of the server keep their types.                           *)
THEOREM SrvTypeCorrect == Spec => []SrvTypeOK
BY SrvInvHolds, SrvInvImplies, PTL

(* With any number of client threads, starts and stops: what tells the GUI *)
(* that a transfer runs is set only while one does, or after a 425 that    *)
(* nothing has followed; and it is set while one does, but for assignments *)
(* of others that do not look, or looked before.                           *)
THEOREM ActivityStaysTrue == Spec => []ActivityIsTrue
BY SrvInvHolds, SrvInvImplies, PTL

(* The descriptors stay accounted for when the server is stopped under a   *)
(* transfer and started again beside the threads of its last run.          *)
THEOREM DescriptorsSurviveStops == Spec => []DescriptorsAccounted
BY SrvInvHolds, SrvInvImplies, PTL
=============================================================================
