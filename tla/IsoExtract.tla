------------------------------ MODULE IsoExtract ------------------------------
(***************************************************************************)
(* source/iso.c from a folder to an image and back: makeps3iso lays the    *)
(* image out (IsoImage), writes it through the event thread (IsoWriter),   *)
(* and extractps3iso makes a folder of what is on the disk.                *)
(*                                                                         *)
(* The image is written by a run of makeps3iso, for the folders of         *)
(* Written, or was written at some other time without trouble. Everything  *)
(* the extraction asks of the system may fail: trouble says that something *)
(* did, or that the user ended it.                                         *)
(***************************************************************************)
EXTENDS IsoWriter, IsoImage

CONSTANTS
  Folders,   \* the folders images are made of
  Written,   \* those of them makeps3iso writes the image of before our eyes
  BigFile,   \* 0xFFFF0001 bytes, the size from which split_files splits
  PieceMax   \* 0x40000000 bytes, the size of a .666xx piece; in half sectors

ASSUME ExtractAssumption ==
  /\ Written \subseteq Folders
  /\ BigFile \in Nat \ {0} /\ PieceMax \in Nat \ {0}
  /\ PieceMax % (2 * BlockMax) = 0

VARIABLES
  folder,       \* the folder the image is made of
  image,        \* Image(folder)
  xpc,          \* where extractps3iso is
  split_files,  \* its argument
  idx,          \* the entry of the path table it is at
  todo,         \* what DirectoryRead found there, less the files done
  cur,          \* the file being written: key, lba and size left, count_split
  out,          \* the files written, as sequences of pieces
  made,         \* the directories made
  trouble

extraction == <<xpc, split_files, idx, todo, cur, out, made, trouble>>
xvars == <<folder, image, extraction>>

LayoutOf(img) == [flba2 |-> img.flba2, end |-> img.flba2 + Len(img.data)]

(* What the sums of calc_entries come to: there is a header, and with the  *)
(* directories of the images we write it fits into the first part, which   *)
(* has 4 GB.                                                               *)
ASSUME LayoutAssumption ==
  \A x \in Folders : ~TooManyFolders(x) =>
    LET to == LayoutOf(Image(x)) IN
    /\ to.flba2 \in Nat \ {0} /\ to.end \in Nat /\ to.flba2 <= to.end
    /\ x \in Written => to.flba2 <= SplitLba

NoFiles == [files |-> <<>>, broken |-> FALSE]
NoFile == [key |-> <<>>, lba |-> 0, size |-> 0, count |-> 0, big |-> FALSE]

(* An image that was written earlier, all of it, in one file or in parts.  *)
AlreadyWritten ==
  /\ EvStarted
  /\ mpc = "done" /\ ret = 0 /\ flba = Toc /\ first = FALSE
  /\ blk = [lba |-> Toc, n |-> 0]
  /\ f = [lba |-> 0, n |-> 0, mem |-> FALSE, ret |-> 0]
  /\ flags = {} /\ fd = Closed /\ headerOk = TRUE
  /\ iso_split \in {0} \cup (IF Header <= SplitLba THEN {(Toc - 1) \div SplitLba + 1} ELSE {})
  /\ disk = [p \in Parts |->
               IF iso_split # 0
               THEN Interval(p * SplitLba, IF p = Toc \div SplitLba THEN Toc ELSE (p + 1) * SplitLba)
               ELSE IF p = 0 THEN Interval(0, Toc) ELSE <<>>]
  /\ fpc = "idle" /\ wpos = 0 /\ wret = 0 /\ wflags = {}
  /\ slipped = FALSE /\ stray = FALSE

Init ==
  /\ folder \in {x \in Folders : ~TooManyFolders(x)}
  /\ image = Image(folder)
  /\ layout = LayoutOf(image)
  /\ \/ folder \in Written /\ StartWriting
     \/ AlreadyWritten
  /\ xpc = "none" /\ split_files = FALSE /\ idx = 1
  /\ todo = NoFiles /\ cur = NoFile
  /\ out = <<>> /\ made = {} /\ trouble = FALSE

-----------------------------------------------------------------------------
(* read_split                                                              *)

Stored(p) == IF p \in Parts THEN Len(disk[p]) ELSE 0
Before(p) == SumOf([q \in 1 .. p |-> Stored(q - 1)])
InOneFile == Stored(1) = 0

NotRead == [ok |-> FALSE, sectors |-> <<>>]
FromFile(p, sector, n) ==
  IF sector + n <= Stored(p)
  THEN [ok |-> TRUE, sectors |-> SubSeq(disk[p], sector + 1, sector + n)] ELSE NotRead

(* A read is made from the part its first byte is in when it ends before   *)
(* the end of it, and else from this part and the next, which must open    *)
(* even when nothing is left to read from it.                              *)
Inside(lba, size, p) == 2 * lba + size < 2 * Before(p + 1)
read_split(lba, size) ==
  LET n == SectorsOf(size)
      parts == {p \in Parts : Before(p) <= lba /\ lba < Before(p + 1)}
      p == CHOOSE q \in parts : TRUE
      lim == Before(p + 1) - lba
      head == FromFile(p, lba - Before(p), lim)
      tail == FromFile(p + 1, 0, n - lim)
  IN IF InOneFile THEN FromFile(0, lba, n)
     ELSE IF parts = {} THEN NotRead
     ELSE IF Inside(lba, size, p) THEN FromFile(p, lba - Before(p), n)
     ELSE IF Stored(p + 1) = 0 \/ ~tail.ok THEN NotRead
     ELSE [ok |-> TRUE, sectors |-> head.sectors \o tail.sectors]

-----------------------------------------------------------------------------
(* extractps3iso                                                           *)

Fails(t) == xpc' = "err" /\ trouble' = (trouble \/ t)
DescriptorThere == disk[0] # <<>> /\ disk[0][1] = 0

(* Up to the loop over the path table: the memory, the descriptor and the  *)
(* free space.                                                             *)
extractps3iso ==
  /\ xpc = "none" /\ Success
  /\ split_files' \in BOOLEAN
  /\ \/ DescriptorThere /\ xpc' = "folder" /\ UNCHANGED trouble
     \/ Fails(DescriptorThere)
  /\ UNCHANGED <<idx, todo, cur, out, made>>

Here == get_iso_path(image.table, idx)

(* A folder is made, with nobody looking at the result of ps3ntfs_mkdir,   *)
(* and its records are read.                                               *)
OpenFolder ==
  /\ xpc = "folder" /\ idx <= Len(image.table)
  /\ made' \in {made} \cup (IF Here = <<>> \/ Front(Here) \in made
                             THEN {made \cup {Here}} ELSE {})
  /\ LET lba == image.table[idx].lba IN
     \/ /\ ~BadFirstRecord(image, lba)
        /\ todo' = DirectoryRead(image, lba)
        /\ xpc' = "file" /\ trouble' = (trouble \/ Here \notin made')
     \/ Fails(~BadFirstRecord(image, lba) \/ Here \notin made') /\ UNCHANGED todo
  /\ UNCHANGED <<split_files, idx, cur, out>>

(* A file is created, under its own name or with .66600 behind it.         *)
NextFile ==
  /\ xpc = "file" /\ todo.files # <<>>
  /\ LET file == Head(todo.files)
         key == <<Here, file.name>> IN
     \/ /\ Here \in made
        /\ out' = (key :> << <<>> >>) @@ out
        /\ cur' = [key |-> key, lba |-> file.lba, size |-> file.size, count |-> 0,
                   big |-> split_files /\ file.size >= BigFile]
        /\ todo' = [todo EXCEPT !.files = Tail(@)]
        /\ \/ xpc' = "write" /\ UNCHANGED trouble
           \/ Fails(TRUE)
     \/ Fails(Here \in made) /\ UNCHANGED <<todo, cur, out>>
  /\ UNCHANGED <<split_files, idx, made>>

(* One round of the loop over the file: at most 128 sectors, into the next *)
(* piece when the last one is full.                                        *)
Pieces ==
  IF cur.big /\ cur.count >= PieceMax THEN Append(out[cur.key], <<>>) ELSE out[cur.key]

WriteChunk ==
  /\ xpc = "write" /\ cur.size > 0
  /\ LET size == IF cur.size > 2 * BlockMax THEN 2 * BlockMax ELSE cur.size
         chunk == read_split(cur.lba, size)
         n == Len(Pieces)
         count == IF n = Len(out[cur.key]) THEN cur.count ELSE 0 IN
     \/ /\ chunk.ok
        /\ out' = [out EXCEPT ![cur.key] = [Pieces EXCEPT ![n] = @ \o chunk.sectors]]
        /\ cur' = [cur EXCEPT !.lba = @ + SectorsOf(size), !.size = @ - size,
                              !.count = IF cur.big THEN count + size ELSE count]
        /\ UNCHANGED <<xpc, trouble>>
     \/ Fails(chunk.ok) /\ UNCHANGED <<out, cur>>
  /\ UNCHANGED <<split_files, idx, todo, made>>

FileWritten ==
  /\ xpc = "write" /\ cur.size = 0
  /\ xpc' = "file"
  /\ UNCHANGED <<split_files, idx, todo, cur, out, made, trouble>>

EndOfFolder ==
  /\ xpc = "file" /\ todo.files = <<>>
  /\ IF todo.broken THEN Fails(FALSE) /\ UNCHANGED idx
     ELSE xpc' = "folder" /\ idx' = idx + 1 /\ UNCHANGED trouble
  /\ UNCHANGED <<split_files, todo, cur, out, made>>

Finish ==
  /\ xpc = "folder" /\ idx > Len(image.table)
  /\ xpc' = "finished"
  /\ UNCHANGED <<split_files, idx, todo, cur, out, made, trouble>>

(* err: the user is asked whether to delete the partial game, which is the *)
(* whole folder.                                                           *)
AskDelete ==
  /\ xpc = "err"
  /\ \/ out' = <<>> /\ made' = {}
     \/ UNCHANGED <<out, made>>
  /\ xpc' = "failed"
  /\ UNCHANGED <<split_files, idx, todo, cur, trouble>>

Extract ==
  /\ \/ extractps3iso \/ OpenFolder \/ NextFile \/ WriteChunk
     \/ FileWritten \/ EndOfFolder \/ Finish \/ AskDelete
  /\ UNCHANGED <<vars, folder, image>>

Next ==
  \/ Main /\ UNCHANGED xvars
  \/ Worker /\ UNCHANGED xvars
  \/ Extract

Spec == Init /\ [][Next]_<<vars, xvars>> /\ Fairness

-----------------------------------------------------------------------------
(* PROPERTIES                                                              *)

TruePath(d) ==
  LET path[e \in DOMAIN folder] ==
        IF e = 1 THEN <<>> ELSE Append(path[folder[e].parent], e)
  IN path[d]

Sources == UNION {{<<d, i>> : i \in DOMAIN Files(folder[d])} : d \in DOMAIN folder}
FileOf(s) == folder[s[1]].files[s[2]]

(* The sectors of the image that hold a file of the folder, in order.      *)
SectorsWith(s) ==
  LET mine == SelectSeq(Upto(Len(image.data)),
                        LAMBDA k : image.data[k].dir = s[1] /\ image.data[k].file = s[2])
  IN [i \in DOMAIN mine |-> image.flba2 + mine[i] - 1]

(* The exchange sort of calc_entries can change the order of siblings.     *)
SiblingsInOrder ==
  \A n \in DOMAIN image.table :
    LET c == Children(image.table, n) IN
    \A i \in 1 .. Len(c) - 1 : image.table[c[i]].id < image.table[c[i + 1]].id

(* What was extracted is the folder: its directories, its files at their   *)
(* paths with all their sectors in order, in one piece or in full pieces   *)
(* of PieceMax and a rest, and nothing else.                               *)
TheFolderIsBack ==
  /\ DOMAIN out = {<<TruePath(s[1]), s[2]>> : s \in Sources}
  /\ \A s \in Sources :
       LET pieces == out[<<TruePath(s[1]), s[2]>>] IN
       /\ FlattenSeq(pieces) = SectorsWith(s)
       /\ \A i \in 1 .. Len(pieces) - 1 : 2 * Len(pieces[i]) = PieceMax
       /\ Len(pieces) > 1 => split_files /\ Size(FileOf(s)) >= BigFile
  /\ ~trouble => made = {TruePath(d) : d \in DOMAIN folder}

AllOnDisk == \A lba \in 0 .. Toc - 1 : OnDisk(lba)

(* The last read of a file with no bytes left in its last sector ends      *)
(* where the last of several parts ends, and no further part can be        *)
(* opened (iso.c:2934).                                                    *)
EndsWithTheParts ==
  ~InOneFile /\ \E s \in Sources :
    Size(FileOf(s)) > 0 /\ Size(FileOf(s)) % 2 = 0 /\ Last(SectorsWith(s)) = Toc - 1

(* From folder to folder: fill_entries finds room for all records, unless  *)
(* the sort reordered siblings; a finished extraction returns the folder,  *)
(* whatever became of the records and of the last block; and an            *)
(* extraction that meets no trouble finishes, unless a sector is missing,  *)
(* records are missing, or the last read ends with the last part.          *)
RoundTrip ==
  /\ SiblingsInOrder => image.filled
  /\ xpc = "finished" => TheFolderIsBack
  /\ xpc = "failed" /\ ~trouble => ~AllOnDisk \/ ~image.filled \/ EndsWithTheParts

(* get_iso_file_pos gives the position of the file that is asked for, and  *)
(* of no other, and its size. It misses a file, or the rest of its size,   *)
(* only behind a sector that is filled to the last byte or has 34 bytes or *)
(* more left.                                                              *)
EntryOf(d) == CHOOSE n \in DOMAIN image.table : image.table[n].id = d
SectorsOfEntry(n) ==
  {lba \in DOMAIN image.area :
     /\ lba >= image.table[n].lba
     /\ \A m \in DOMAIN image.table :
          image.table[m].lba > image.table[n].lba => lba < image.table[m].lba}
RecordedBehind(n, i, lba) ==
  \E b \in SectorsOfEntry(n) : b > lba /\ \E k \in DOMAIN image.area[b] :
    image.area[b][k].kind = "file" /\ image.area[b][k].name = i
Searchable(n, i) ==
  \A lba \in SectorsOfEntry(n) :
    RecordedBehind(n, i, lba) => Gap(image.area[lba]) \in 1 .. 33

PositionsAreTrue ==
  mpc = "done" /\ xpc = "none" /\ image.filled =>
    \A s \in Sources :
      LET pos == get_iso_file_pos(folder, image, TruePath(s[1]), s[2]) IN
      /\ pos.found /\ Size(FileOf(s)) > 0 => pos.lba = SectorsWith(s)[1]
      /\ Searchable(EntryOf(s[1]), s[2]) => pos.found /\ pos.size = Size(FileOf(s))
=============================================================================
