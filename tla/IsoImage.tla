------------------------------ MODULE IsoImage ------------------------------
(***************************************************************************)
(* source/iso.c, the layout of an image and how it is read: makeps3iso     *)
(* counts the sectors the records of each directory take (calc_entries),   *)
(* places the records (fill_dirpath, fill_entries) and lays the files one  *)
(* behind the other (build_file_iso); extractps3iso and get_iso_file_pos   *)
(* find them again. Everything here is a function of its arguments.        *)
(*                                                                         *)
(* A folder is the sequence of its directories, each before those inside   *)
(* it and in the order of readdir: [parent, len, update, files], len being *)
(* the length of the name and update that the name ends in PS3_UPDATE. A   *)
(* file is [len, parts], the sizes of its .666xx parts in half sectors     *)
(* (one part: a plain file), so that a size may end inside a sector.       *)
(* Names are their lengths: two directories with names of one length have  *)
(* the same name unless they are siblings. Of the two trees of an image    *)
(* both are counted and placed; only the second one, with UTF-16 names, is *)
(* ever read, so only its records are kept. Names so long that a record    *)
(* passes RecordMax bytes, the most its length can say, are left out.      *)
(***************************************************************************)
EXTENDS Integers, FiniteSets, SequencesExt

CONSTANTS
  SectorBytes,  \* 2048
  RecordMax,    \* 255
  TableLba,     \* 20, where the first path table starts
  DirLba,       \* 32, the first sector a directory may lie at
  MaxPaths,     \* MAX_ISO_PATHS, 4096
  MaxExtent     \* 0xFFFFF800 bytes, in half sectors

ASSUME ImageAssumption ==
  /\ SectorBytes \in Nat /\ RecordMax \in Nat /\ 2 * RecordMax < SectorBytes
  /\ TableLba \in Nat /\ DirLba \in Nat /\ MaxPaths \in Nat \ {0}
  /\ MaxExtent \in Nat \ {0} /\ MaxExtent % 2 = 0

Even(n) == n + (n % 2)
RoundUp(n, unit) == (n + unit - 1) \div unit
Upto(n) == [k \in 1 .. n |-> k]
SumOf(s) == FoldLeft(+, 0, s)

Size(file) == SumOf(file.parts)
SectorsOf(size) == RoundUp(size, 2)

(* A file of more than MaxExtent has several records of the same name, all *)
(* but the last one flagged 0x80; an empty file has one.                   *)
Extents(file) ==
  LET n == IF Size(file) = 0 THEN 1 ELSE RoundUp(Size(file), MaxExtent)
  IN [i \in 1 .. n |-> [size |-> IF i < n THEN MaxExtent ELSE Size(file) - (n - 1) * MaxExtent,
                        more |-> i < n]]

(* The bytes of a record in the first tree (w = FALSE) and in the second.  *)
DotLength == 40
FileLength(w, len) == Even(IF w THEN 43 + 2 * len ELSE 41 + len)
DirLength(w, len) == Even(IF w THEN 39 + 2 * len ELSE 39 + len)

Children(table, n) ==
  SelectSeq(Upto(Len(table)), LAMBDA k : k > 1 /\ table[k].parent = n)

-----------------------------------------------------------------------------
(* calc_entries                                                            *)

EntryLengths(folder, d, w) ==
  FlattenSeq([i \in DOMAIN folder[d].files |->
                [e \in DOMAIN Extents(folder[d].files[i]) |->
                   FileLength(w, folder[d].files[i].len)]])
    \o [i \in DOMAIN Children(folder, d) |-> DirLength(w, folder[Children(folder, d)[i]].len)]

(* cldir and ldir: no record passes the end of a sector.                   *)
DirSectors(lengths) ==
  RoundUp(FoldLeft(LAMBDA s, add :
                     IF s.c + add > SectorBytes
                     THEN [c |-> add,
                           size |-> (s.size \div SectorBytes + 1) * SectorBytes + add]
                     ELSE [c |-> (s.c + add) % SectorBytes, size |-> s.size + add],
                   [c |-> 2 * DotLength, size |-> 2 * DotLength], lengths).size,
          SectorBytes)

PathTableSectors(folder, w) ==
  RoundUp(SumOf([d \in DOMAIN folder |->
                   IF d = 1 THEN 10 ELSE Even(8 + (IF w THEN 2 ELSE 1) * folder[d].len)]),
          SectorBytes)

(* Two directories change places, and the numbers of their children are    *)
(* changed with them, from the first of the two on.                        *)
Exchange(table, n, m) ==
  [l \in DOMAIN table |->
     LET e == CASE l = n -> table[m] [] l = m -> table[n] [] OTHER -> table[l]
     IN IF l < n THEN e
        ELSE [e EXCEPT !.parent = CASE @ = n -> m [] @ = m -> n [] OTHER -> @]]

SortByParent(table) ==
  FoldLeft(LAMBDA outer, n :
             FoldLeft(LAMBDA t, m : IF t[n].parent > t[m].parent THEN Exchange(t, n, m) ELSE t,
                      outer, [k \in 1 .. Len(table) - n |-> n + k]),
           table, [k \in 1 .. Len(table) - 1 |-> k + 1])

TooManyFolders(folder) == Len(folder) > MaxPaths

(* What calc_entries makes of the sorted list: where each directory and    *)
(* the first file lie. A value bound as the one element of a set is        *)
(* evaluated once, a LET each time it is used.                             *)
Laid(folder, table) ==
  LET tables == TableLba + 2 * PathTableSectors(folder, FALSE) + 2 * PathTableSectors(folder, TRUE)
      dllba == IF tables < DirLba THEN DirLba ELSE tables
      dwlba == dllba + SumOf([n \in DOMAIN table |-> table[n].ldir])
      Lba(n) == dwlba + SumOf([k \in 1 .. n - 1 |-> table[k].wdir])
  IN [table |-> [n \in DOMAIN table |->
                   [id |-> table[n].id, parent |-> table[n].parent,
                    ldir |-> table[n].ldir, wdir |-> table[n].wdir, lba |-> Lba(n)]],
      dwlba |-> dwlba, flba |-> Lba(Len(table) + 1)]

Counted(folder) ==
  [d \in DOMAIN folder |->
     [id |-> d, parent |-> folder[d].parent,
      ldir |-> DirSectors(EntryLengths(folder, d, FALSE)),
      wdir |-> DirSectors(EntryLengths(folder, d, TRUE))]]

calc_entries(folder) ==
  CHOOSE calc \in {Laid(folder, table) : table \in {SortByParent(Counted(folder))}} : TRUE

-----------------------------------------------------------------------------
(* fill_entries                                                            *)

(* The order of the recursion over directory_iso, which build_file_iso     *)
(* follows too.                                                            *)
Levels(table) ==
  LET below[n \in DOMAIN table] ==
        <<n>> \o FlattenSeq([i \in DOMAIN Children(table, n) |-> below[Children(table, n)[i]]])
  IN below[1]

Files(dir) == IF dir.update THEN <<>> ELSE dir.files       \* NOPS3_UPDATE

(* The path table in the order of directory_iso.                           *)
fill_dirpath(table) ==
  [n \in DOMAIN table |-> [id |-> table[n].id, lba |-> table[n].lba, parent |-> table[n].parent]]

(* A cursor of one tree: the sector and the byte the next record goes to,  *)
(* and count_sec, which counts the records that did not fit a sector but   *)
(* not the sectors that were filled to the last byte.                      *)
Cursor(lba) == [lba |-> lba, q |-> 0, count |-> 1]
Fitted(c, add) ==
  IF c.q + add > SectorBytes
  THEN [lba |-> c.lba + 1, q |-> 0, count |-> c.count + 1] ELSE c
Behind(c, add) ==
  IF c.q + add = SectorBytes
  THEN [c EXCEPT !.lba = @ + 1, !.q = 0] ELSE [c EXCEPT !.q = @ + add]

(* One record in both trees. s is [l, w, area, flba, ok]: the cursors, the *)
(* sectors of the second tree, the next LBA for a file, and whether -444   *)
(* ("too much entries in directory") has not ended the walk.               *)
PutRecord(s, dir, r) ==
  LET l == Fitted(s.l, r.llen)
      w == Fitted(s.w, r.wlen)
      record == [at |-> w.q, len |-> r.wlen, kind |-> r.kind, name |-> r.name,
                 lba |-> IF r.kind = "file" THEN s.flba ELSE r.lba,
                 size |-> r.size, more |-> r.more]
  IN IF ~s.ok \/ l.count > dir.ldir \/ w.count > dir.wdir THEN [s EXCEPT !.ok = FALSE]
     ELSE [s EXCEPT !.l = Behind(l, r.llen), !.w = Behind(w, r.wlen),
                    !.area = [@ EXCEPT ![w.lba] = IF w.q = 0 THEN <<record>> ELSE Append(@, record)],
                    !.flba = IF r.kind = "file" THEN @ + SectorsOf(r.size) ELSE @]

(* The records of a level: itself, its parent, its files, its directories. *)
LevelRecords(folder, table, n) ==
  LET Record(kind, name, ll, wl, lba, size, more) ==
        [kind |-> kind, name |-> name, llen |-> ll, wlen |-> wl,
         lba |-> lba, size |-> size, more |-> more]
      Directory(kind, name, ll, wl, m) ==
        Record(kind, name, ll, wl, table[m].lba, 2 * table[m].wdir, FALSE)
      files == Files(folder[table[n].id])
      dirs == Children(table, n)
      FileRecords(i) ==
        [e \in DOMAIN Extents(files[i]) |->
           Record("file", i, FileLength(FALSE, files[i].len), FileLength(TRUE, files[i].len),
                  0, Extents(files[i])[e].size, Extents(files[i])[e].more)]
      DirRecord(m) ==
        LET len == folder[table[m].id].len
        IN Directory("dir", table[m].id, DirLength(FALSE, len), DirLength(TRUE, len), m)
  IN <<Directory("self", 0, DotLength, DotLength, n),
       Directory("parent", 0, DotLength, DotLength, IF n = 1 THEN 1 ELSE table[n].parent)>>
       \o FlattenSeq([i \in DOMAIN files |-> FileRecords(i)])
       \o [i \in DOMAIN dirs |-> DirRecord(dirs[i])]

fill_entries(folder, table, dwlba, flba) ==
  FoldLeft(LAMBDA s, n :
             IF ~s.ok THEN s
             ELSE FoldLeft(LAMBDA t, r : PutRecord(t, table[n], r),
                           [s EXCEPT !.l = Cursor(0), !.w = Cursor(table[n].lba)],
                           LevelRecords(folder, table, n)),
           [l |-> Cursor(0), w |-> Cursor(0),
            area |-> [lba \in dwlba .. flba |-> <<>>], flba |-> flba, ok |-> TRUE],
           Levels(table))

(* What build_file_iso writes behind the directories, sector by sector.    *)
build_file_iso(folder, table) ==
  FlattenSeq([i \in DOMAIN Levels(table) |->
    LET d == table[Levels(table)[i]].id IN
    FlattenSeq([f \in DOMAIN Files(folder[d]) |->
      [k \in 1 .. SectorsOf(Size(Files(folder[d])[f])) |-> [dir |-> d, file |-> f, sector |-> k]]])])

(* The image makeps3iso writes of a folder. filled is FALSE when           *)
(* fill_entries returned -444, which the switch of makeps3iso (2555-2577)  *)
(* has no case for: the program goes on with what there is.                *)
Filled(folder, calc, fill) ==
  [filled |-> fill.ok, table |-> fill_dirpath(calc.table), area |-> fill.area,
   flba2 |-> calc.flba, toc |-> fill.flba, data |-> build_file_iso(folder, calc.table)]

Image(folder) ==
  CHOOSE image \in
    UNION {{Filled(folder, calc, fill) :
              fill \in {fill_entries(folder, calc.table, calc.dwlba, calc.flba)}} :
             calc \in {calc_entries(folder)}} : TRUE

-----------------------------------------------------------------------------
(* Reading a directory                                                     *)

Gap(sector) ==
  SectorBytes - (IF sector = <<>> THEN 0 ELSE Last(sector).at + Last(sector).len)

(* extractps3iso: the first record must be the directory itself. A record  *)
(* of length 0 ends the directory when more than RecordMax bytes of the    *)
(* sector are left, and else the next sector is tried, up to the size the  *)
(* first record states.                                                    *)
BadFirstRecord(image, lba) ==
  \/ image.area[lba] = <<>>
  \/ image.area[lba][1].kind # "self" \/ image.area[lba][1].lba # lba

GoesOn(image, lba, j) ==
  /\ Gap(image.area[lba + j]) <= RecordMax
  /\ 2 * (j + 1) < image.area[lba][1].size
  /\ image.area[lba + j + 1] # <<>>
  /\ image.area[lba + j + 1][1].kind # "self"

RecordsRead(image, lba) ==
  LET sectors == {j \in 0 .. image.area[lba][1].size \div 2 - 1 :
                    \A i \in 0 .. j - 1 : GoesOn(image, lba, i)}
  IN FlattenSeq([j \in 1 .. Cardinality(sectors) |-> image.area[lba + j - 1]])

(* Records of one file (flag 0x80, file_aux) are put together.             *)
JoinNothing(s, r) ==     \* mutant
  [s EXCEPT !.files = Append(@, [name |-> r.name, lba |-> r.lba, size |-> r.size])]
Join(s, r) ==
  LET lba == IF s.open THEN s.lba ELSE r.lba
      size == IF s.open THEN s.size + r.size ELSE r.size
  IN IF s.open /\ r.name # s.name THEN [s EXCEPT !.broken = TRUE]
     ELSE IF r.more THEN [s EXCEPT !.open = TRUE, !.name = r.name, !.lba = lba, !.size = size]
     ELSE [s EXCEPT !.open = FALSE,
                    !.files = Append(@, [name |-> r.name, lba |-> lba, size |-> size])]

DirectoryRead(image, lba) ==
  FoldLeft(LAMBDA s, r : IF s.broken \/ r.kind # "file" THEN s ELSE Join(s, r),
           [files |-> <<>>, open |-> FALSE, name |-> 0, lba |-> 0, size |-> 0, broken |-> FALSE],
           RecordsRead(image, lba))

(* get_iso_path: the path of an entry of the path table.                   *)
get_iso_path(table, idx) ==
  LET path[n \in DOMAIN table] ==
        IF n = 1 THEN <<>> ELSE Append(path[table[n].parent], table[n].id)
  IN path[idx]

-----------------------------------------------------------------------------
(* get_iso_file_pos                                                        *)

SameName(folder, d, e) ==
  d = e \/ (d # 1 /\ e # 1 /\ folder[d].len = folder[e].len /\ folder[d].parent # folder[e].parent)

FolderLbaByName(folder, table, path) ==     \* mutant
  FoldLeft(LAMBDA s, n :
             IF s.taken = Len(path) \/ ~SameName(folder, table[n].id, path[s.taken + 1])
             THEN s
             ELSE [taken |-> s.taken + 1, last |-> n],
           [taken |-> 0, last |-> 1], Upto(Len(table)))

(* The path table is walked once: an entry is taken for the next folder of *)
(* the path when it has its name and the parent taken last.                *)
FolderLba(folder, table, path) ==
  FoldLeft(LAMBDA s, n :
             IF s.taken = Len(path) \/ table[n].parent # s.last
                \/ ~SameName(folder, table[n].id, path[s.taken + 1])
             THEN s
             ELSE [taken |-> s.taken + 1, last |-> n],
           [taken |-> 0, last |-> 1], Upto(Len(table)))

(* A sector is left for the next only when fewer than 34 bytes of it are   *)
(* left; p2 passes over two sectors behind one filled to the last byte.    *)
SearchedTo(image, lba, j) ==
  j + 1 + Cardinality({i \in 0 .. j : Gap(image.area[lba + i]) = 0})
SearchGoesOn(image, lba, j) ==
  /\ Gap(image.area[lba + j]) < 34
  /\ 2 * SearchedTo(image, lba, j) < image.area[lba][1].size
  /\ image.area[lba + j + 1] # <<>>

RecordsSearched(image, lba) ==
  LET sectors == {j \in 0 .. image.area[lba][1].size \div 2 - 1 :
                    \A i \in 0 .. j - 1 : SearchGoesOn(image, lba, i)}
  IN FlattenSeq([j \in 1 .. Cardinality(sectors) |-> image.area[lba + j - 1]])

get_iso_file_pos(folder, image, path, f) ==
  LET s == FolderLba(folder, image.table, path)
      records == RecordsSearched(image, image.table[s.last].lba)
      mine == SelectSeq(records, LAMBDA r : r.kind = "file" /\ r.name = f)
  IN IF s.taken < Len(path) \/ mine = <<>> THEN [found |-> FALSE, lba |-> 0, size |-> 0]
     ELSE [found |-> TRUE, lba |-> mine[1].lba, size |-> SumOf([i \in DOMAIN mine |-> mine[i].size])]
=============================================================================
